---- MODULE Spec2Model ----
(***************************************************************************)
(* Ingestion pipeline of the call dashboard: AudioProcessor               *)
(* (src/processor.py) driven by the file watcher (src/watcher.py) and by  *)
(* the dashboard's reprocess / delete requests (src/app.py).              *)
(*                                                                         *)
(* The Record Store (the CSV file) is a sequence of rows, each row a      *)
(* tuple in the order _save_to_csv writes it.  The inbound and processed  *)
(* directories are sets of names.  Every pipeline thread has a program    *)
(* counter that stops at each access to the store, to a directory or to   *)
(* an external provider.  Wall-clock values (timestamp, processing_time)  *)
(* and the text of transcripts are abstracted to small sets.              *)
(***************************************************************************)
EXTENDS Integers, Sequences, FiniteSets, TLC

\* ---------------------------------------------------------------- bounds
NumFiles == 1
NumThreads == 2
MaxArrivals == 1
MaxEvents == 2
NumKeys == 2
MaxSyncCycles == 2
MaxStops == 2
MaxRows == 3
MaxContent == 3
MaxBatch == 21
NumSources == 3
IntervalTicks == 2

\* ------------------------------------------------------ program constants
MAX_RETRIES == 3
RETRY_DELAY == 5
MAX_FILE_SIZE_MB == 100
max_wait == 30
stable_time == 2
checkpoint_every == 10

Files == 1..NumFiles
Threads == 1..NumThreads

\* Other things that can appear in the watched folder: a file that is not
\* audio, and a sub-directory.
TextFile == NumFiles + 1
SubDir == NumFiles + 2
Paths == Files \cup {TextFile, SubDir}

is_directory(p) == p = SubDir

\* Path(filename).suffix: the audio files of the model are named *.MP3 and
\* *.wav in turn.
Suffix(p) ==
    IF p \in Files THEN (IF p % 2 = 1 THEN ".MP3" ELSE ".wav")
    ELSE IF p = TextFile THEN ".txt"
    ELSE ""

\* str.lower() on the suffixes of the model.
Lower(s) == IF s = ".MP3" THEN ".mp3" ELSE s

SUPPORTED_AUDIO_FORMATS == {".mp3", ".wav", ".m4a", ".flac", ".ogg"}

is_supported_audio_file(p) == Lower(Suffix(p)) \in SUPPORTED_AUDIO_FORMATS

get_file_size_limit_bytes == MAX_FILE_SIZE_MB * 1024 * 1024

\* File sizes of the model: empty, exactly at the limit, one byte over it.
Sizes == {0, get_file_size_limit_bytes, get_file_size_limit_bytes + 1}

\* Every file of the processed folder went through the size check, and the
\* model has one size that passes it.
ProcessedSize == get_file_size_limit_bytes

VARIABLES
    csv,        \* rows of config.CSV_FILE below the header line
    inbound,    \* names present in config.AUDIO_FOLDER
    size,       \* st_size of each audio file in config.AUDIO_FOLDER (0: no file)
    processed,  \* names present in config.PROCESSED_FOLDER: <<file, suffix>>
    claimed,    \* AudioFileHandler.processed_files
    events,     \* creation events delivered by the observer, not yet handled
    scanState,  \* _process_existing_files: "notyet" | "done"
    scanQueue,  \* unprocessed_files still to be dispatched by the scan
    arrivals,   \* number of files that have been put into the inbound folder
    del,        \* the delete_record request in progress
    pc,         \* per thread: position in _process_file_safely / process_audio_file
    file,       \* per thread: file_path.name
    origin,     \* per thread: who started it ("scan" | "event" | "reprocess")
    result,     \* per thread: the result dict of process_audio_file
    attempt,    \* per thread: loop variable of the running retry loop
    ret,        \* per thread: status returned by process_audio_file
    trace,      \* per thread: side effects of the current invocation, in order
    dg,         \* per thread: what the last _transcribe_with_deepgram call did
    ai,         \* per thread: what the last _analyze_with_openai call did
    raced,      \* filenames for which a check-then-act window was entered
    wait,       \* the _wait_for_file_stable call of the event being handled
    sync,       \* the sync_new_recordings call of the sync worker
    life,       \* the running flag, the main loop and the sync worker loop
    call        \* the last call of a function that is checked by itself

storeVars == <<csv, inbound, size, processed, arrivals, del>>
watchVars == <<claimed, events, scanState, scanQueue>>
procVars == <<pc, file, origin, result, attempt, ret>>
histVars == <<trace, dg, ai, raced>>
bgVars == <<wait, sync, life, call>>
vars == <<storeVars, watchVars, procVars, histVars, bgVars>>

\* ------------------------------------------------------------ the store
\* Columns of the CSV file that the model keeps, in header order.
get_csv_headers ==
    <<"filename", "transcription", "summary", "intent", "sub_intent",
      "status", "error_message">>

ColumnIndex(name) == CHOOSE i \in 1..Len(get_csv_headers) : get_csv_headers[i] = name

\* df[name] of one row read back by pandas: the value under header `name`.
Col(row, name) == row[ColumnIndex(name)]

\* History of one run of the transcription retry loop: provider calls made,
\* attempts that failed, time.sleep arguments in order, and how it ended.
NoDg == [calls |-> 0, fails |-> 0, sleeps |-> <<>>, end |-> "running"]

NoMessage == [text |-> "", attempts |-> 0]

\* Locals of _wait_for_file_stable and the last observations it made.  With
\* pc "atomic" the wait is taken as part of the on_created step: it reads
\* the file's size only and changes nothing the other threads see.
NoWait ==
    [pc |-> "atomic", path |-> 0, last_size |-> 0, stable_count |-> 0,
     wait_time |-> 0, polls |-> 0, seen |-> <<>>]

\* Locals of sync_new_recordings, the outcome of each download of the batch
\* and the number of cycles started.
NoSync ==
    [pc |-> "idle", new_files |-> <<>>, i |-> 0, downloaded_count |-> 0,
     outcomes |-> <<>>, ret |-> 0, cycles |-> 0, raised |-> FALSE,
     prev_raised |-> FALSE]

\* AudioWatcher after start() has set _running: the main thread is on its way
\* to the watch loop and the sync worker to its loop; no stop() was called
\* and _process_file_safely has caught no exception yet.
WatcherStarted ==
    [running |-> TRUE, main |-> "loop", worker |-> "check", tick |-> 0,
     stops |-> 0, caught |-> FALSE]

\* The value None where a dict is expected.
NoAnalysis == [none |-> TRUE]

\* History of one run of the classification retry loop, with the value it
\* returned.
NoAi == [calls |-> 0, fails |-> 0, sleeps |-> <<>>, end |-> "running",
         value |-> NoAnalysis]

HasKey(r, k) == k \in DOMAIN r

SetKey(r, k, v) == [x \in (DOMAIN r) \cup {k} |-> IF x = k THEN v ELSE r[x]]

\* The dict built at the start of process_audio_file: it has no 'sub_intent'.
NewResult(filename) ==
    [filename |-> filename, transcription |-> "", summary |-> "",
     intent |-> "", status |-> "processing", error_message |-> NoMessage]

\* Variant: the scan of the frame starts one row too late.
is_file_already_processed_skip_first(store, filename) ==
    \E i \in 2..Len(store) : Col(store[i], "filename") = filename

\* Variant: the gate never finds the filename.
is_file_already_processed_never(store, filename) == FALSE

is_file_already_processed(store, filename) ==
    \E i \in 1..Len(store) : Col(store[i], "filename") = filename

\* The list _save_to_csv writes; result['sub_intent'] raises KeyError when
\* the key was never set, which _save_to_csv catches and logs.
RowOf(r) ==
    <<r.filename, r.transcription, r.summary, r.intent, r.sub_intent,
      r.status, r.error_message>>

SaveRaisesKeyError(r) == ~HasKey(r, "sub_intent")

save_to_csv(store, r) ==
    IF SaveRaisesKeyError(r) THEN store ELSE Append(store, RowOf(r))

\* ------------------------------------------------------------- helpers
InFlight(t) == pc[t] \in {"stat", "deepgram", "openai", "move", "save"}

Idle(t) == pc[t] = "idle"

\* Statement order of process_audio_file: where control goes after each
\* stage.  Every exception raised inside the try block is caught at line 262
\* and control reaches the finally block.
\* Variant: the row is saved before the file is moved.
StepAfter_save_first(stage) ==
    CASE stage = "gate" -> "stat"
      [] stage = "stat" -> "deepgram"
      [] stage = "transcribed" -> "openai"
      [] stage = "analysed" -> "save"
      [] stage = "saved" -> "move"
      [] stage = "moved" -> "done"
      [] stage = "raised" -> "save"

\* Variant: no except clause, an exception leaves process_audio_file.
StepAfter_escape(stage) ==
    CASE stage = "gate" -> "stat"
      [] stage = "stat" -> "deepgram"
      [] stage = "transcribed" -> "openai"
      [] stage = "analysed" -> "move"
      [] stage = "moved" -> "save"
      [] stage = "raised" -> "idle"
      [] stage = "saved" -> "done"

StepAfter(stage) ==
    CASE stage = "gate" -> "stat"
      [] stage = "stat" -> "deepgram"
      [] stage = "transcribed" -> "openai"
      [] stage = "analysed" -> "move"
      [] stage = "moved" -> "save"
      [] stage = "raised" -> "save"
      [] stage = "saved" -> "done"

\* Variant: the status is left as it was.
MarkCompleted_forgot(r) == r

\* Line 244.
MarkCompleted(r) == [r EXCEPT !.status = "completed"]

\* The trace names a call once, at its first attempt.
Called(tr, what) ==
    IF \E i \in 1..Len(tr) : tr[i] = what THEN tr ELSE Append(tr, what)

\* except Exception as e: status failed, message recorded (lines 262-269)
Failed(r, msg) == [r EXCEPT !.status = "failed", !.error_message = msg]

\* No call yet.
NoCall == [op |-> "none"]

\* The program at its start, but for the rows the store holds.
InitExceptStore ==
    /\ inbound \in SUBSET Files
    /\ size \in [Files -> Sizes]
    /\ \A f \in Files \ inbound : size[f] = 0
    /\ processed = {}
    /\ claimed = {}
    /\ events = {}
    /\ scanState = "notyet"
    /\ scanQueue = {}
    /\ arrivals = 0
    /\ del = [pc |-> "idle", file |-> 0, df |-> <<>>]
    /\ pc = [t \in Threads |-> "idle"]
    /\ file = [t \in Threads |-> 0]
    /\ origin = [t \in Threads |-> "none"]
    /\ result = [t \in Threads |-> NewResult(0)]
    /\ attempt = [t \in Threads |-> 0]
    /\ ret = [t \in Threads |-> "none"]
    /\ trace = [t \in Threads |-> <<>>]
    /\ dg = [t \in Threads |-> NoDg]
    /\ ai = [t \in Threads |-> NoAi]
    /\ raced = {}
    /\ sync = NoSync
    /\ life = WatcherStarted
    /\ call = NoCall

InitExceptWait == csv = <<>> /\ InitExceptStore

Init == InitExceptWait /\ wait = NoWait

\* Start of a thread on file f: local state of a fresh call.
Spawn(t, f, who, at) ==
    /\ pc' = [pc EXCEPT ![t] = at]
    /\ file' = [file EXCEPT ![t] = f]
    /\ origin' = [origin EXCEPT ![t] = who]
    /\ result' = [result EXCEPT ![t] = NewResult(f)]
    /\ attempt' = [attempt EXCEPT ![t] = 0]
    /\ ret' = [ret EXCEPT ![t] = "none"]
    /\ trace' = [trace EXCEPT ![t] = <<>>]
    /\ dg' = [dg EXCEPT ![t] = NoDg]
    /\ ai' = [ai EXCEPT ![t] = NoAi]

\* -------------------------------------------------------- environment
\* A file is written into the watched folder (upload, manual copy, sync);
\* the observer queues its creation event.
CreateFile(f) ==
    /\ f \notin inbound
    /\ arrivals < MaxArrivals
    /\ inbound' = inbound \cup {f}
    /\ \E sz \in Sizes : size' = [size EXCEPT ![f] = sz]
    /\ events' = events \cup {f}
    /\ arrivals' = arrivals + 1
    /\ UNCHANGED <<csv, processed, del, claimed, scanState, scanQueue>>
    /\ UNCHANGED <<procVars, histVars, bgVars>>

\* Anything is created in the watched folder, again after it was moved out:
\* an audio file of any size, another file, a sub-directory.  The observer
\* queues a creation event for it.
CreatePath(p) ==
    /\ p \notin inbound
    /\ arrivals < MaxEvents
    /\ inbound' = inbound \cup {p}
    /\ IF p \in Files
       THEN \E sz \in Sizes : size' = [size EXCEPT ![p] = sz]
       ELSE UNCHANGED size
    /\ events' = events \cup {p}
    /\ arrivals' = arrivals + 1
    /\ UNCHANGED <<csv, processed, del, claimed, scanState, scanQueue>>
    /\ UNCHANGED <<procVars, histVars, bgVars>>

\* ------------------------------------------------------------- watcher
\* Variant: the claim is dropped whether or not the file is still there.
ReleaseClaim_always(t) == claimed \ {file[t]}

\* finally block of _process_file_safely: the claim is dropped only when
\* the file still exists at its path.
ReleaseClaim(t) ==
    IF file[t] \in claimed /\ file[t] \in inbound
    THEN claimed \ {file[t]}
    ELSE claimed

\* What one file_path.stat() of the stability wait can give while the file
\* is being written: a size, or OSError.
Observations ==
    {[ok |-> TRUE, st_size |-> n] : n \in {0, 1, 2}} \cup {[ok |-> FALSE, st_size |-> 0]}

\* The last stable_time observations.
Keep(seen, obs) ==
    IF Len(seen) < stable_time THEN Append(seen, obs) ELSE Append(Tail(seen), obs)

\* on_created, lines 30-41, for a supported file: the call of
\* _wait_for_file_stable with its locals initialised.
wait_start(f) ==
    /\ wait.pc = "idle"
    /\ f \in events
    /\ ~is_directory(f) /\ is_supported_audio_file(f)
    /\ wait' = [NoWait EXCEPT !.pc = "polling", !.path = f]
    /\ UNCHANGED <<storeVars, watchVars, procVars, histVars, sync, life, call>>

\* Variant: the except clause sleeps without counting the second.
AfterStatFailure_uncounted(w) == w

\* Lines 82-86.
AfterStatFailure(w) == [w EXCEPT !.wait_time = @ + 1]

\* Lines 70-80 for a size read without error; pc "returned" is the break.
AfterStat(w, current_size) ==
    IF current_size = w.last_size /\ current_size > 0
    THEN IF w.stable_count + 1 >= stable_time
         THEN [w EXCEPT !.stable_count = @ + 1, !.pc = "returned"]
         ELSE [w EXCEPT !.stable_count = @ + 1, !.wait_time = @ + 1]
    ELSE [w EXCEPT !.stable_count = 0, !.last_size = current_size,
                   !.wait_time = @ + 1]

\* One evaluation of the while condition of _wait_for_file_stable and, when
\* it holds, one iteration of the loop.
wait_for_file_stable ==
    /\ wait.pc = "polling"
    /\ IF wait.wait_time < max_wait
       THEN \E obs \in Observations :
               wait' = [(IF obs.ok THEN AfterStat(wait, obs.st_size)
                                  ELSE AfterStatFailure(wait))
                           EXCEPT !.polls = @ + 1, !.seen = Keep(@, obs)]
       ELSE wait' = [wait EXCEPT !.pc = "returned"]
    /\ UNCHANGED <<storeVars, watchVars, procVars, histVars, sync, life, call>>

\* Variant: the membership test is skipped.
AlreadyClaimed_never(f) == FALSE

\* Line 45.
AlreadyClaimed(f) == f \in claimed

\* AudioFileHandler.on_created: ignore directories and unsupported names;
\* after the stability wait, under the lock, drop the event if the path is
\* claimed, else claim it and start a processing thread.
on_created(t, f) ==
    /\ f \in events
    /\ \/ wait.pc = "atomic"
       \/ wait.pc = "returned" /\ wait.path = f
    /\ events' = events \ {f}
    /\ wait' = IF wait.pc = "atomic" THEN wait ELSE [NoWait EXCEPT !.pc = "idle"]
    /\ IF is_directory(f) \/ ~is_supported_audio_file(f) \/ AlreadyClaimed(f)
       THEN UNCHANGED <<claimed, procVars, trace, dg, ai>>
       ELSE /\ Idle(t)
            /\ claimed' = claimed \cup {f}
            /\ Spawn(t, f, "event", "safely")
    /\ UNCHANGED <<storeVars, scanState, scanQueue, raced, sync, life, call>>

\* AudioWatcher._process_existing_files, first half: list the folder and
\* keep the files that have no row in the store.
process_existing_files ==
    /\ scanState = "notyet"
    /\ scanState' = "done"
    /\ scanQueue' = {f \in inbound : /\ ~is_directory(f)
                                      /\ is_supported_audio_file(f)
                                      /\ ~is_file_already_processed(csv, f)}
    /\ UNCHANGED <<storeVars, claimed, events, procVars, histVars, bgVars>>

\* ... second half: one thread per unprocessed file, one after another.
scan_dispatch(t, f) ==
    /\ f \in scanQueue
    /\ Idle(t)
    /\ scanQueue' = scanQueue \ {f}
    /\ Spawn(t, f, "scan", "safely")
    /\ UNCHANGED <<storeVars, claimed, events, scanState, raced, bgVars>>

\* Reset of a thread whose target function has returned.
Retire(t) ==
    /\ pc' = [pc EXCEPT ![t] = "idle"]
    /\ file' = [file EXCEPT ![t] = 0]
    /\ origin' = [origin EXCEPT ![t] = "none"]
    /\ result' = [result EXCEPT ![t] = NewResult(0)]
    /\ attempt' = [attempt EXCEPT ![t] = 0]
    /\ ret' = [ret EXCEPT ![t] = "none"]
    /\ trace' = [trace EXCEPT ![t] = <<>>]
    /\ dg' = [dg EXCEPT ![t] = NoDg]
    /\ ai' = [ai EXCEPT ![t] = NoAi]

\* Variant: only the empty file is rejected.
SizeAccepted_nonempty(file_size) == ~(file_size = 0)

\* Lines 95-102: the file is handed to the pipeline unless it is larger
\* than the limit or empty.
SizeAccepted(file_size) == ~(file_size > get_file_size_limit_bytes) /\ ~(file_size = 0)

\* Variant: no except clause, the exception goes on to the thread's caller.
except_Exception_absent(e) == FALSE

\* Line 107, except Exception: every exception the stat or the pipeline
\* raises is caught and logged.
except_Exception(e) == TRUE

\* AudioFileHandler._process_file_safely up to the call of the pipeline:
\* stat() raises when the file is gone, a rejected size returns, and the
\* finally block then runs.  A thread whose exception was not caught ends
\* with it ("escaped").
process_file_safely(t) ==
    /\ pc[t] = "safely"
    /\ IF file[t] \in inbound /\ SizeAccepted(size[file[t]])
       THEN /\ pc' = [pc EXCEPT ![t] = "dedup"]
            /\ UNCHANGED <<file, origin, result, attempt, ret, trace, dg, ai>>
            /\ UNCHANGED <<claimed, life>>
       ELSE /\ claimed' = ReleaseClaim(t)
            /\ IF file[t] \notin inbound
               THEN /\ life' = [life EXCEPT !.caught = except_Exception("OSError")]
                    /\ IF except_Exception("OSError")
                       THEN Retire(t)
                       ELSE /\ pc' = [pc EXCEPT ![t] = "escaped"]
                            /\ UNCHANGED <<file, origin, result, attempt, ret,
                                           trace, dg, ai>>
               ELSE /\ Retire(t)
                    /\ UNCHANGED life
    /\ UNCHANGED <<storeVars, events, scanState, scanQueue, raced, wait, sync, call>>

\* Return of process_audio_file to its caller: the watcher thread runs its
\* finally block, reprocess_file returns result['status'] == 'completed'.
finish(t) ==
    /\ pc[t] = "done"
    /\ claimed' = IF origin[t] = "reprocess" THEN claimed ELSE ReleaseClaim(t)
    /\ Retire(t)
    /\ UNCHANGED <<storeVars, events, scanState, scanQueue, raced, bgVars>>

\* ------------------------------------------------------------ pipeline
\* process_audio_file, lines 122-164: dedup gate, metadata, result dict.
process_audio_file(t) ==
    /\ pc[t] = "dedup"
    /\ IF is_file_already_processed(csv, file[t])
       THEN /\ pc' = [pc EXCEPT ![t] = "done"]
            /\ ret' = [ret EXCEPT ![t] = "skipped"]
            /\ UNCHANGED <<result, trace, raced>>
       ELSE /\ pc' = [pc EXCEPT ![t] = StepAfter("gate")]
            /\ result' = [result EXCEPT ![t] = NewResult(file[t])]
            /\ trace' = [trace EXCEPT ![t] = <<"metadata">>]
            /\ raced' = IF \E u \in Threads \ {t} : InFlight(u) /\ file[u] = file[t]
                        THEN raced \cup {file[t]}
                        ELSE raced
            /\ UNCHANGED ret
    /\ UNCHANGED <<file, origin, attempt, dg, ai>>
    /\ UNCHANGED <<storeVars, watchVars, bgVars>>

\* file_path.stat() at line 168.
stat_file(t) ==
    /\ pc[t] = "stat"
    /\ IF file[t] \in inbound
       THEN /\ pc' = [pc EXCEPT ![t] = StepAfter("stat")]
            /\ attempt' = [attempt EXCEPT ![t] = 0]
            /\ UNCHANGED result
       ELSE /\ pc' = [pc EXCEPT ![t] = StepAfter("raised")]
            /\ result' = [result EXCEPT ![t] =
                   Failed(@, [text |-> "No such file or directory", attempts |-> 0])]
            /\ UNCHANGED attempt
    /\ UNCHANGED <<file, origin, ret, histVars, storeVars, watchVars, bgVars>>

\* What one provider call can do: answer with a transcript (possibly empty
\* after strip) or fail (exception, or a response without results).
DeepgramOutcomes ==
    {[ok |-> TRUE, transcript |-> "hello"], [ok |-> TRUE, transcript |-> ""],
     [ok |-> FALSE, transcript |-> ""]}

ShouldSleep(a) == a < MAX_RETRIES - 1

\* Variant: the delay is computed from the zero-based loop variable.
BackoffDelay_zero_based(a) == RETRY_DELAY * a

BackoffDelay(a) == RETRY_DELAY * (a + 1)

\* Lines 230-233: an empty transcript is not sent to the model.
EmptyTranscriptDefaults(r) ==
    SetKey([r EXCEPT !.summary = "No transcription available for analysis",
                     !.intent = "OTHER"],
           "sub_intent", "GENERAL_INQUIRY")

\* Lines 222-225: the classifier returned None.
AIFailedDefaults(r) ==
    SetKey([r EXCEPT !.summary = "AI analysis failed", !.intent = "OTHER"],
           "sub_intent", "GENERAL_INQUIRY")

\* One iteration of the loop of _transcribe_with_deepgram, and what
\* process_audio_file does with its result (lines 183-237).
transcribe_with_deepgram(t) ==
    /\ pc[t] = "deepgram"
    /\ \E out \in DeepgramOutcomes :
        LET opened == file[t] \in inbound
            ok == opened /\ out.ok
            r1 == [result[t] EXCEPT !.transcription = out.transcript]
            called == [dg[t] EXCEPT !.calls = IF opened THEN @ + 1 ELSE @]
            failed == [called EXCEPT !.fails = @ + 1]
        IN
        IF attempt[t] >= MAX_RETRIES
        THEN \* range(MAX_RETRIES) is exhausted without raising: return None
             /\ dg' = [dg EXCEPT ![t].end = "returned_none"]
             /\ result' = [result EXCEPT ![t] =
                    Failed(@, [text |-> "Failed to get transcription from Deepgram",
                               attempts |-> 0])]
             /\ pc' = [pc EXCEPT ![t] = StepAfter("raised")]
             /\ UNCHANGED <<attempt, trace>>
        ELSE IF ok
        THEN /\ dg' = [dg EXCEPT ![t] = [called EXCEPT !.end = "returned"]]
             /\ attempt' = [attempt EXCEPT ![t] = 0]
             /\ IF out.transcript # ""
                THEN /\ result' = [result EXCEPT ![t] = r1]
                     /\ trace' = [trace EXCEPT ![t] =
                            Called(@, "transcribe") \o <<"transcribed">>]
                     /\ pc' = [pc EXCEPT ![t] = StepAfter("transcribed")]
                ELSE /\ result' = [result EXCEPT ![t] = EmptyTranscriptDefaults(r1)]
                     /\ trace' = [trace EXCEPT ![t] =
                            Called(@, "transcribe") \o <<"transcribed", "defaulted">>]
                     /\ pc' = [pc EXCEPT ![t] = StepAfter("analysed")]
        ELSE IF ShouldSleep(attempt[t])
        THEN /\ dg' = [dg EXCEPT ![t] =
                    [failed EXCEPT !.sleeps = Append(@, BackoffDelay(attempt[t]))]]
             /\ attempt' = [attempt EXCEPT ![t] = @ + 1]
             /\ trace' = [trace EXCEPT ![t] = Called(@, "transcribe")]
             /\ UNCHANGED <<pc, result>>
        ELSE /\ dg' = [dg EXCEPT ![t] = [failed EXCEPT !.end = "raised"]]
             /\ result' = [result EXCEPT ![t] =
                    Failed(@, [text |-> "Deepgram transcription failed after N attempts",
                               attempts |-> MAX_RETRIES])]
             /\ trace' = [trace EXCEPT ![t] = Called(@, "transcribe")]
             /\ pc' = [pc EXCEPT ![t] = StepAfter("raised")]
             /\ UNCHANGED attempt
    /\ UNCHANGED <<file, origin, ret, ai, raced, storeVars, watchVars, bgVars>>

\* valid_intents, lines 508-513.
ValidIntents ==
    {"ROOFING", "WINDOWS_DOORS", "PLUMBING", "ELECTRICAL", "HVAC", "FLOORING",
     "SIDING_EXTERIOR", "KITCHEN_BATH", "GENERAL_CONTRACTOR", "EMERGENCY_REPAIR",
     "QUOTE_REQUEST", "COMPLAINT", "OTHER"}

\* The keys of `patterns` in _classify_sub_intent_keywords.
PatternIntents == ValidIntents \ {"FLOORING", "SIDING_EXTERIOR"}

\* The `defaults` table, lines 707-719.
DefaultSubIntent(intent) ==
    CASE intent = "ROOFING" -> "ROOF_REPAIR"
      [] intent = "WINDOWS_DOORS" -> "WINDOW_REPAIR"
      [] intent = "PLUMBING" -> "LEAK_REPAIR"
      [] intent = "ELECTRICAL" -> "WIRING_REPAIR"
      [] intent = "HVAC" -> "AC_REPAIR"
      [] intent = "KITCHEN_BATH" -> "BATHROOM_REMODEL"
      [] intent = "QUOTE_REQUEST" -> "ESTIMATE_REQUEST"
      [] intent = "EMERGENCY_REPAIR" -> "EMERGENCY_REPAIR"
      [] intent = "COMPLAINT" -> "COMPLAINT"
      [] OTHER -> "GENERAL_INQUIRY"

\* The summaries the model's provider answers with.
RoofLeakSummary == "Customer called about roof leak"
RoofLeakSentence == "The caller asked about a roof leak."

\* The sub-intent with the highest keyword score for the summary, "" when
\* no keyword of the intent occurs in it (lines 689-704): 'leak' is the
\* only keyword of ROOFING in the first summary; the second is classified
\* under OTHER, none of whose keywords it contains.
BestSubIntent(intent, summary) ==
    IF intent = "ROOFING" /\ summary \in {RoofLeakSummary, RoofLeakSentence}
    THEN "ROOF_REPAIR"
    ELSE ""

classify_sub_intent_keywords(intent, summary) ==
    IF intent \notin PatternIntents THEN "GENERAL_INQUIRY"
    ELSE IF BestSubIntent(intent, summary) # "" THEN BestSubIntent(intent, summary)
    ELSE DefaultSubIntent(intent)

\* str.upper() on the sub-intents the model's provider answers with.
Upper(s) == IF s = "roof_repair" THEN "ROOF_REPAIR" ELSE s

\* Bodies of a response that json.loads accepts: all fields, no sub_intent,
\* no intent.
JsonBodies ==
    {[summary |-> RoofLeakSummary, intent |-> "ROOFING", sub_intent |-> "roof_repair"],
     [summary |-> RoofLeakSummary, intent |-> "ROOFING"],
     [summary |-> RoofLeakSummary]}

\* Bodies that raise json.JSONDecodeError, as _extract_from_text_response
\* reads them: the labelled lines it finds and the first sentence.
TextBodies ==
    {[summary_line |-> "", intent_line |-> "", sub_intent_line |-> "",
      first_sentence |-> RoofLeakSentence]}

\* What one call of the language model can give: a JSON body, a body that
\* is not JSON, or nothing usable (exception, timeout, no choices).
OpenAIOutcomes ==
    {[kind |-> "json", body |-> b] : b \in JsonBodies}
        \cup {[kind |-> "text", body |-> b] : b \in TextBodies}
        \cup {[kind |-> "error", body |-> NoAnalysis]}

\* Variant: the parsed body is returned as the provider sent it.
ValidatedAnalysis_as_given(body) == body

\* Lines 506-528: the dict returned for a JSON body with both required
\* fields.  The summaries of the model are shorter than 500 characters.
ValidatedAnalysis(body) ==
    LET intent == IF body.intent \in ValidIntents THEN body.intent ELSE "OTHER"
        generic == \/ ~HasKey(body, "sub_intent")
                   \/ body.sub_intent \in {"", "GENERAL_INQUIRY", "GENERAL"}
    IN [summary |-> body.summary,
        intent |-> intent,
        sub_intent |-> IF generic
                       THEN classify_sub_intent_keywords(intent, body.summary)
                       ELSE Upper(body.sub_intent)]

\* _extract_from_text_response: always a dict with the three fields.
extract_from_text_response(content) ==
    LET found == IF content.summary_line # "" THEN content.summary_line
                 ELSE "Call analysis completed"
        intent == IF content.intent_line \in ValidIntents THEN content.intent_line
                  ELSE "OTHER"
        sub0 == IF content.sub_intent_line # "" THEN content.sub_intent_line
                ELSE "GENERAL_INQUIRY"
        basic == IF found = "Call analysis completed" /\ content.first_sentence # ""
                 THEN content.first_sentence
                 ELSE found
        summary == IF basic = "" THEN "Call transcribed successfully" ELSE basic
    IN [summary |-> summary,
        intent |-> intent,
        sub_intent |-> IF sub0 \in {"GENERAL_INQUIRY", "GENERAL"}
                       THEN classify_sub_intent_keywords(intent, summary)
                       ELSE sub0]

\* An attempt ends in the outer except clause: the call raised, or the
\* parsed body lacks a required field (raise at line 540).
AttemptRaises(out) ==
    \/ out.kind = "error"
    \/ out.kind = "json" /\ ~(HasKey(out.body, "summary") /\ HasKey(out.body, "intent"))

\* What an attempt that does not raise returns (lines 528 and 536).
AttemptReturns(out) ==
    IF out.kind = "text"
    THEN extract_from_text_response(out.body)
    ELSE ValidatedAnalysis(out.body)

\* dict.get(key, default)
Get(d, k, default) == IF HasKey(d, k) THEN d[k] ELSE default

\* Lines 214-217: the classifier returned a dict.
AnalysisApplied(r, a) ==
    SetKey([r EXCEPT !.summary = Get(a, "summary", "Analysis failed"),
                     !.intent = Get(a, "intent", "OTHER")],
           "sub_intent", Get(a, "sub_intent", "GENERAL_INQUIRY"))

\* One iteration of the loop of _analyze_with_openai, and what
\* process_audio_file does with its result (lines 211-229).
analyze_with_openai(t) ==
    /\ pc[t] = "openai"
    /\ \E out \in OpenAIOutcomes :
        LET called == [ai[t] EXCEPT !.calls = @ + 1]
            failed == [called EXCEPT !.fails = @ + 1]
        IN
        IF attempt[t] >= MAX_RETRIES
        THEN \* range(MAX_RETRIES) is exhausted: return None
             /\ ai' = [ai EXCEPT ![t].end = "returned_none"]
             /\ result' = [result EXCEPT ![t] = AIFailedDefaults(@)]
             /\ trace' = [trace EXCEPT ![t] = Append(@, "defaulted")]
             /\ pc' = [pc EXCEPT ![t] = StepAfter("analysed")]
             /\ UNCHANGED attempt
        ELSE IF ~AttemptRaises(out)
        THEN /\ ai' = [ai EXCEPT ![t] =
                    [called EXCEPT !.end = "returned", !.value = AttemptReturns(out)]]
             /\ result' = [result EXCEPT ![t] = AnalysisApplied(@, AttemptReturns(out))]
             /\ trace' = [trace EXCEPT ![t] = Called(@, "classify") \o <<"classified">>]
             /\ pc' = [pc EXCEPT ![t] = StepAfter("analysed")]
             /\ attempt' = [attempt EXCEPT ![t] = 0]
        ELSE IF ShouldSleep(attempt[t])
        THEN /\ ai' = [ai EXCEPT ![t] =
                    [failed EXCEPT !.sleeps = Append(@, BackoffDelay(attempt[t]))]]
             /\ attempt' = [attempt EXCEPT ![t] = @ + 1]
             /\ trace' = [trace EXCEPT ![t] = Called(@, "classify")]
             /\ UNCHANGED <<pc, result>>
        ELSE /\ ai' = [ai EXCEPT ![t] = [failed EXCEPT !.end = "returned_none"]]
             /\ result' = [result EXCEPT ![t] = AIFailedDefaults(@)]
             /\ trace' = [trace EXCEPT ![t] = Called(@, "classify") \o <<"defaulted">>]
             /\ pc' = [pc EXCEPT ![t] = StepAfter("analysed")]
             /\ attempt' = [attempt EXCEPT ![t] = 0]
    /\ dg' = [dg EXCEPT ![t] = NoDg]
    /\ UNCHANGED <<file, origin, ret, raced>>
    /\ UNCHANGED <<storeVars, watchVars, bgVars>>

\* The name _move_to_processed picks: the file's own name, else the first
\* free name with a numeric suffix.
free_processed_path(dir, f) ==
    CHOOSE k \in 0..Cardinality(dir) :
        /\ <<f, k>> \notin dir
        /\ \A j \in 0..(k - 1) : <<f, j>> \in dir

\* _move_to_processed swallows every exception of the move.
MoveRaises(t, ioError) == file[t] \notin inbound \/ ioError

\* Lines 244-249: status 'completed', then _move_to_processed.  shutil.move
\* raises when the source is gone or on an I/O error (permission, disk).
move_to_processed(t) ==
    /\ pc[t] = "move"
    /\ result' = [result EXCEPT ![t] = MarkCompleted(@)]
    /\ pc' = [pc EXCEPT ![t] = StepAfter("moved")]
    /\ \E ioError \in BOOLEAN :
        IF MoveRaises(t, ioError)
        THEN /\ trace' = [trace EXCEPT ![t] = Append(@, "move_failed")]
             /\ UNCHANGED <<inbound, size, processed>>
        ELSE /\ trace' = [trace EXCEPT ![t] = Append(@, "moved")]
             /\ inbound' = inbound \ {file[t]}
             /\ size' = [size EXCEPT ![file[t]] = 0]
             /\ processed' = processed \cup
                    {<<file[t], free_processed_path(processed, file[t])>>}
    /\ UNCHANGED <<csv, arrivals, del, watchVars, bgVars>>
    /\ dg' = [dg EXCEPT ![t] = NoDg]
    /\ ai' = [ai EXCEPT ![t] = NoAi]
    /\ UNCHANGED <<file, origin, attempt, ret, raced>>

\* finally: _save_to_csv(result); return result (lines 271-275).
save_result(t) ==
    /\ pc[t] = "save"
    /\ csv' = save_to_csv(csv, result[t])
    /\ trace' = [trace EXCEPT ![t] =
           IF csv' # csv THEN Append(@, "append") ELSE @]
    /\ ret' = [ret EXCEPT ![t] = result[t].status]
    /\ pc' = [pc EXCEPT ![t] = StepAfter("saved")]
    /\ UNCHANGED <<inbound, size, processed, arrivals, del, watchVars, bgVars>>
    /\ dg' = [dg EXCEPT ![t] = NoDg]
    /\ ai' = [ai EXCEPT ![t] = NoAi]
    /\ UNCHANGED <<file, origin, result, attempt, raced>>

\* ----------------------------------------------------------- dashboard
\* AudioProcessor.reprocess_file for a file found in the processed folder:
\* copy it back into the audio folder, then run the pipeline on the copy.
reprocess_file(t, f) ==
    /\ Idle(t)
    /\ <<f, 0>> \in processed
    /\ arrivals < MaxArrivals
    /\ arrivals' = arrivals + 1
    /\ inbound' = inbound \cup {f}
    /\ size' = [size EXCEPT ![f] = ProcessedSize]
    /\ events' = IF f \in inbound THEN events ELSE events \cup {f}
    /\ Spawn(t, f, "reprocess", "dedup")
    /\ UNCHANGED <<csv, processed, del, claimed, scanState, scanQueue, raced, bgVars>>

\* AudioProcessor.delete_record, lines 866-867: read the whole file.
delete_record_read(f) ==
    /\ del.pc = "idle"
    /\ del' = [pc |-> "read", file |-> f, df |-> csv]
    /\ UNCHANGED <<csv, inbound, size, processed, arrivals, watchVars, procVars>>
    /\ UNCHANGED <<histVars, bgVars>>

\* Variant: only the first matching row is dropped.
WithoutFile_first(df, f) ==
    LET hits == {i \in 1..Len(df) : Col(df[i], "filename") = f}
    IN  IF hits = {} THEN df
        ELSE LET m == CHOOSE i \in hits : \A j \in hits : i <= j
             IN  SubSeq(df, 1, m - 1) \o SubSeq(df, m + 1, Len(df))

\* Line 871, df[df['filename'] != filename].
WithoutFile(df, f) == SelectSeq(df, LAMBDA row : Col(row, "filename") # f)

\* ... lines 870-879: drop the matching rows and, if any was dropped,
\* write the frame back over the file.
delete_record_write ==
    /\ del.pc = "read"
    /\ del' = [pc |-> "idle", file |-> 0, df |-> <<>>]
    /\ IF Len(WithoutFile(del.df, del.file)) < Len(del.df)
       THEN /\ csv' = WithoutFile(del.df, del.file)
            /\ raced' = raced \cup {file[t] : t \in {u \in Threads : InFlight(u)}}
       ELSE UNCHANGED <<csv, raced>>
    /\ UNCHANGED <<inbound, size, processed, arrivals, watchVars, procVars>>
    /\ UNCHANGED <<trace, dg, ai, bgVars>>

\* ------------------------------------------------------ the store alone
\* Filenames of rows: the files of the model and one of an earlier run.
Names == Files \cup {NumFiles + 1}

StoreRow(n, st) ==
    RowOf(SetKey([NewResult(n) EXCEPT !.status = st], "sub_intent", ""))

\* The rows a store can hold when the program starts.
Stores ==
    UNION {[1..k -> {StoreRow(n, st) : n \in Names, st \in {"completed", "failed"}}] :
             k \in 0..MaxRows}

\* The states of the file that holds the rows: a file that is not there
\* has none, a file that is there can be read or not (locked, no
\* permission, a line that does not parse).
CsvFiles(rows) ==
    {[exists |-> TRUE, readable |-> r, rows |-> rows] : r \in BOOLEAN}
      \cup (IF rows = <<>>
            THEN {[exists |-> FALSE, readable |-> FALSE, rows |-> <<>>]}
            ELSE {})

\* AudioProcessor.is_file_already_processed on a file of any state: False
\* without the file, False from the except clause when read_csv raises.
is_file_already_processed_in(csv_file, filename) ==
    IF ~csv_file.exists THEN FALSE
    ELSE IF ~csv_file.readable THEN FALSE
    ELSE is_file_already_processed(csv_file.rows, filename)

\* One call of is_file_already_processed.
check_processed ==
    /\ \E f \in Names, csv_file \in CsvFiles(csv) :
          call' = [op |-> "is_file_already_processed", csv_file |-> csv_file,
                   filename |-> f,
                   out |-> is_file_already_processed_in(csv_file, f)]
    /\ UNCHANGED <<storeVars, watchVars, procVars, histVars, wait, sync, life>>

\* One call of AudioProcessor.delete_record while nothing else uses the
\* file: read, drop the matching rows, write back if a row was dropped.
delete_record(f) ==
    /\ call' = [op |-> "delete_record", filename |-> f, df |-> csv,
                out |-> Len(WithoutFile(csv, f)) < Len(csv)]
    /\ csv' = IF Len(WithoutFile(csv, f)) < Len(csv) THEN WithoutFile(csv, f) ELSE csv
    /\ UNCHANGED <<inbound, size, processed, arrivals, del>>
    /\ UNCHANGED <<watchVars, procVars, histVars, wait, sync, life>>

\* ------------------------------------------------- disposition classifier
\* Texts are sequences of characters; a fixed text of the code is one
\* element.  The characters of a provider response: a letter, the
\* separator, a blank.
Contents ==
    UNION {[1..n -> {"A", "|", " "}] : n \in 0..MaxContent}

\* First position of character c in s, 0 when it is not in s.
Find(s, c) ==
    IF \E i \in 1..Len(s) : s[i] = c
    THEN CHOOSE i \in 1..Len(s) : s[i] = c /\ \A j \in 1..(i - 1) : s[j] # c
    ELSE 0

\* str.strip(): blanks at both ends removed.
RECURSIVE Strip(_)
Strip(s) ==
    IF s = <<>> THEN s
    ELSE IF Head(s) = " " THEN Strip(Tail(s))
    ELSE IF s[Len(s)] = " " THEN Strip(SubSeq(s, 1, Len(s) - 1))
    ELSE s

\* os.getenv('OPENAI_API_KEY'): unset, set to the empty string, set.
ApiKeys ==
    {[set |-> FALSE, value |-> ""], [set |-> TRUE, value |-> ""],
     [set |-> TRUE, value |-> "sk"]}

\* Variant: api_key is None.
KeyMissing_unset(api_key) == ~api_key.set

\* Line 767, not api_key.
KeyMissing(api_key) == ~api_key.set \/ api_key.value = ""

\* What the chat completion call can do: return a message with a text,
\* return a message whose content is None, raise.
Completions ==
    {[kind |-> "content", content |-> c] : c \in Contents}
      \cup {[kind |-> "none", content |-> <<>>], [kind |-> "raises", content |-> <<>>]}

Disposition(primary, secondary) ==
    [primary_disposition |-> primary, secondary_disposition |-> secondary]

\* CallAnalytics.classify_disposition; completion is what the provider does
\* if it is called.  None.strip() raises AttributeError inside the try.
classify_disposition(api_key, completion) ==
    IF KeyMissing(api_key) THEN Disposition(<<"UNKNOWN">>, <<"NO_API_KEY">>)
    ELSE IF completion.kind \in {"raises", "none"}
    THEN Disposition(<<"ERROR">>, <<"API_ERROR">>)
    ELSE LET text == Strip(completion.content)
             bar == Find(text, "|")
         IN  IF bar > 0
             THEN Disposition(Strip(SubSeq(text, 1, bar - 1)),
                              Strip(SubSeq(text, bar + 1, Len(text))))
             ELSE Disposition(<<"OTHER">>, <<"CLASSIFICATION_ERROR">>)

\* One call of classify_disposition, with whether the provider was called.
classify_disposition_call ==
    /\ \E api_key \in ApiKeys, completion \in Completions :
          call' = [op |-> "classify_disposition", api_key |-> api_key,
                   completion |-> completion,
                   called |-> ~KeyMissing(api_key),
                   out |-> classify_disposition(api_key, completion)]
    /\ UNCHANGED <<storeVars, watchVars, procVars, histVars, wait, sync, life>>

\* ------------------------------------------------ sub-intent keyword scoring
\* The `patterns` table of _classify_sub_intent_keywords, lines 617-684: per
\* intent the candidate sub-intents in the order of the dict, each with its
\* keyword phrases.
patterns(intent) ==
    CASE intent = "ROOFING" ->
          <<[sub_intent |-> "ROOF_PURCHASE", keywords |->
              <<<<"p", "u", "r", "c", "h", "a", "s", "e">>,
                <<"b", "u", "y">>,
                <<"m", "a", "t", "e", "r", "i", "a", "l">>,
                <<"g", "a", "u", "g", "e">>,
                <<"b", "u", "y", "i", "n", "g">>,
                <<"a", "d", "v", "e", "r", "t", "i", "s", "e", "d">>,
                <<"f", "a", "c", "e", "b", "o", "o", "k">>>>],
            [sub_intent |-> "ROOF_REPAIR", keywords |->
              <<<<"r", "e", "p", "a", "i", "r">>,
                <<"l", "e", "a", "k">>,
                <<"f", "i", "x">>,
                <<"d", "a", "m", "a", "g", "e">>,
                <<"b", "r", "o", "k", "e", "n">>,
                <<"l", "e", "a", "k", "i", "n", "g">>>>],
            [sub_intent |-> "ROOF_REPLACEMENT", keywords |->
              <<<<"r", "e", "p", "l", "a", "c", "e", "m", "e", "n", "t">>,
                <<"r", "e", "p", "l", "a", "c", "e">>,
                <<"n", "e", "w", " ", "r", "o", "o", "f">>,
                <<"i", "n", "s", "t", "a", "l", "l">>>>],
            [sub_intent |-> "ROOF_INSPECTION", keywords |->
              <<<<"i", "n", "s", "p", "e", "c", "t", "i", "o", "n">>,
                <<"i", "n", "s", "p", "e", "c", "t">>,
                <<"c", "h", "e", "c", "k">>,
                <<"a", "s", "s", "e", "s", "s", "m", "e", "n", "t">>>>],
            [sub_intent |-> "GUTTER_CLEANING", keywords |->
              <<<<"g", "u", "t", "t", "e", "r", " ", "c", "l", "e", "a", "n">>,
                <<"c", "l", "e", "a", "n", "i", "n", "g", " ", "g", "u", "t", "t", "e", "r", "s">>,
                <<"g", "u", "t", "t", "e", "r", " ", "m", "a", "i", "n", "t", "e", "n", "a", "n", "c", "e">>>>],
            [sub_intent |-> "GUTTER_REPAIR", keywords |->
              <<<<"g", "u", "t", "t", "e", "r", " ", "r", "e", "p", "a", "i", "r">>,
                <<"g", "u", "t", "t", "e", "r", " ", "f", "i", "x">>,
                <<"g", "u", "t", "t", "e", "r", " ", "d", "a", "m", "a", "g", "e">>>>]>>
      [] intent = "WINDOWS_DOORS" ->
          <<[sub_intent |-> "WINDOW_REPAIR", keywords |->
              <<<<"w", "i", "n", "d", "o", "w", " ", "r", "e", "p", "a", "i", "r">>,
                <<"b", "r", "o", "k", "e", "n", " ", "w", "i", "n", "d", "o", "w">>,
                <<"w", "i", "n", "d", "o", "w", " ", "f", "i", "x">>,
                <<"u", "p", "s", "t", "a", "i", "r", "s", " ", "w", "i", "n", "d", "o", "w">>>>],
            [sub_intent |-> "WINDOW_REPLACEMENT", keywords |->
              <<<<"w", "i", "n", "d", "o", "w", " ", "r", "e", "p", "l", "a", "c", "e", "m", "e", "n", "t">>,
                <<"n", "e", "w", " ", "w", "i", "n", "d", "o", "w">>,
                <<"r", "e", "p", "l", "a", "c", "e", " ", "w", "i", "n", "d", "o", "w">>,
                <<"g", "l", "a", "s", "s", " ", "b", "l", "o", "c", "k", " ", "w", "i", "n", "d", "o", "w", "s">>>>],
            [sub_intent |-> "DOOR_REPAIR", keywords |->
              <<<<"d", "o", "o", "r", " ", "r", "e", "p", "a", "i", "r">>,
                <<"b", "r", "o", "k", "e", "n", " ", "d", "o", "o", "r">>,
                <<"d", "o", "o", "r", " ", "f", "i", "x">>>>],
            [sub_intent |-> "DOOR_INSTALLATION", keywords |->
              <<<<"d", "o", "o", "r", " ", "i", "n", "s", "t", "a", "l", "l">>,
                <<"n", "e", "w", " ", "d", "o", "o", "r">>,
                <<"d", "o", "o", "r", " ", "r", "e", "p", "l", "a", "c", "e", "m", "e", "n", "t">>>>],
            [sub_intent |-> "SCREEN_REPAIR", keywords |->
              <<<<"s", "c", "r", "e", "e", "n", " ", "r", "e", "p", "a", "i", "r">>,
                <<"s", "c", "r", "e", "e", "n", " ", "r", "e", "p", "l", "a", "c", "e", "m", "e", "n", "t">>,
                <<"s", "c", "r", "e", "e", "n", " ", "f", "i", "x">>>>]>>
      [] intent = "PLUMBING" ->
          <<[sub_intent |-> "LEAK_REPAIR", keywords |->
              <<<<"l", "e", "a", "k">>,
                <<"l", "e", "a", "k", "i", "n", "g">>,
                <<"w", "a", "t", "e", "r", " ", "d", "a", "m", "a", "g", "e">>,
                <<"p", "i", "p", "e", " ", "l", "e", "a", "k">>>>],
            [sub_intent |-> "PIPE_REPAIR", keywords |->
              <<<<"p", "i", "p", "e", " ", "r", "e", "p", "a", "i", "r">>,
                <<"b", "r", "o", "k", "e", "n", " ", "p", "i", "p", "e">>,
                <<"p", "i", "p", "e", " ", "f", "i", "x">>>>],
            [sub_intent |-> "DRAIN_CLEANING", keywords |->
              <<<<"d", "r", "a", "i", "n", " ", "c", "l", "e", "a", "n">>,
                <<"c", "l", "o", "g", "g", "e", "d", " ", "d", "r", "a", "i", "n">>,
                <<"d", "r", "a", "i", "n", " ", "m", "a", "i", "n", "t", "e", "n", "a", "n", "c", "e">>>>],
            [sub_intent |-> "TOILET_REPAIR", keywords |->
              <<<<"t", "o", "i", "l", "e", "t", " ", "r", "e", "p", "a", "i", "r">>,
                <<"t", "o", "i", "l", "e", "t", " ", "f", "i", "x">>,
                <<"t", "o", "i", "l", "e", "t", " ", "p", "r", "o", "b", "l", "e", "m">>>>],
            [sub_intent |-> "FAUCET_REPAIR", keywords |->
              <<<<"f", "a", "u", "c", "e", "t", " ", "r", "e", "p", "a", "i", "r">>,
                <<"f", "a", "u", "c", "e", "t", " ", "f", "i", "x">>,
                <<"t", "a", "p", " ", "r", "e", "p", "a", "i", "r">>>>],
            [sub_intent |-> "WATER_HEATER", keywords |->
              <<<<"w", "a", "t", "e", "r", " ", "h", "e", "a", "t", "e", "r">>,
                <<"h", "o", "t", " ", "w", "a", "t", "e", "r">>,
                <<"h", "e", "a", "t", "e", "r", " ", "r", "e", "p", "a", "i", "r">>>>]>>
      [] intent = "ELECTRICAL" ->
          <<[sub_intent |-> "WIRING_REPAIR", keywords |->
              <<<<"w", "i", "r", "i", "n", "g">>,
                <<"e", "l", "e", "c", "t", "r", "i", "c", "a", "l", " ", "p", "r", "o", "b", "l", "e", "m">>,
                <<"w", "i", "r", "e", " ", "r", "e", "p", "a", "i", "r">>>>],
            [sub_intent |-> "OUTLET_INSTALLATION", keywords |->
              <<<<"o", "u", "t", "l", "e", "t">>,
                <<"e", "l", "e", "c", "t", "r", "i", "c", "a", "l", " ", "o", "u", "t", "l", "e", "t">>,
                <<"s", "o", "c", "k", "e", "t", " ", "i", "n", "s", "t", "a", "l", "l">>>>],
            [sub_intent |-> "LIGHTING_REPAIR", keywords |->
              <<<<"l", "i", "g", "h", "t", "i", "n", "g">>,
                <<"l", "i", "g", "h", "t", " ", "r", "e", "p", "a", "i", "r">>,
                <<"l", "i", "g", "h", "t", " ", "f", "i", "x">>>>],
            [sub_intent |-> "ELECTRICAL_INSPECTION", keywords |->
              <<<<"e", "l", "e", "c", "t", "r", "i", "c", "a", "l", " ", "i", "n", "s", "p", "e", "c", "t">>,
                <<"e", "l", "e", "c", "t", "r", "i", "c", "a", "l", " ", "c", "h", "e", "c", "k">>>>],
            [sub_intent |-> "PANEL_UPGRADE", keywords |->
              <<<<"e", "l", "e", "c", "t", "r", "i", "c", "a", "l", " ", "p", "a", "n", "e", "l">>,
                <<"p", "a", "n", "e", "l", " ", "u", "p", "g", "r", "a", "d", "e">>,
                <<"b", "r", "e", "a", "k", "e", "r", " ", "b", "o", "x">>>>]>>
      [] intent = "HVAC" ->
          <<[sub_intent |-> "AC_REPAIR", keywords |->
              <<<<"a", "c", " ", "r", "e", "p", "a", "i", "r">>,
                <<"a", "i", "r", " ", "c", "o", "n", "d", "i", "t", "i", "o", "n", "i", "n", "g">>,
                <<"a", "c", " ", "f", "i", "x">>,
                <<"c", "o", "o", "l", "i", "n", "g">>>>],
            [sub_intent |-> "HEATING_REPAIR", keywords |->
              <<<<"h", "e", "a", "t", "i", "n", "g", " ", "r", "e", "p", "a", "i", "r">>,
                <<"h", "e", "a", "t", "e", "r">>,
                <<"h", "e", "a", "t", " ", "p", "u", "m", "p">>,
                <<"f", "u", "r", "n", "a", "c", "e">>>>],
            [sub_intent |-> "DUCT_CLEANING", keywords |->
              <<<<"d", "u", "c", "t", " ", "c", "l", "e", "a", "n">>,
                <<"a", "i", "r", " ", "d", "u", "c", "t">>,
                <<"d", "u", "c", "t", "w", "o", "r", "k">>>>],
            [sub_intent |-> "SYSTEM_INSTALLATION", keywords |->
              <<<<"h", "v", "a", "c", " ", "i", "n", "s", "t", "a", "l", "l">>,
                <<"s", "y", "s", "t", "e", "m", " ", "i", "n", "s", "t", "a", "l", "l">>,
                <<"n", "e", "w", " ", "h", "v", "a", "c">>>>],
            [sub_intent |-> "MAINTENANCE_SERVICE", keywords |->
              <<<<"h", "v", "a", "c", " ", "m", "a", "i", "n", "t", "e", "n", "a", "n", "c", "e">>,
                <<"s", "e", "r", "v", "i", "c", "e", " ", "c", "a", "l", "l">>,
                <<"t", "u", "n", "e", " ", "u", "p">>>>]>>
      [] intent = "KITCHEN_BATH" ->
          <<[sub_intent |-> "BATHROOM_REMODEL", keywords |->
              <<<<"b", "a", "t", "h", "r", "o", "o", "m", " ", "r", "e", "m", "o", "d", "e", "l">>,
                <<"b", "a", "t", "h", " ", "r", "e", "n", "o", "v", "a", "t", "i", "o", "n">>,
                <<"b", "a", "t", "h", "r", "o", "o", "m", " ", "r", "e", "n", "o", "v", "a", "t", "i", "o", "n">>>>],
            [sub_intent |-> "KITCHEN_REMODEL", keywords |->
              <<<<"k", "i", "t", "c", "h", "e", "n", " ", "r", "e", "m", "o", "d", "e", "l">>,
                <<"k", "i", "t", "c", "h", "e", "n", " ", "r", "e", "n", "o", "v", "a", "t", "i", "o", "n">>,
                <<"k", "i", "t", "c", "h", "e", "n", " ", "u", "p", "g", "r", "a", "d", "e">>>>],
            [sub_intent |-> "SHOWER_INSTALLATION", keywords |->
              <<<<"s", "h", "o", "w", "e", "r", " ", "i", "n", "s", "t", "a", "l", "l">>,
                <<"n", "e", "w", " ", "s", "h", "o", "w", "e", "r">>,
                <<"s", "h", "o", "w", "e", "r", " ", "r", "e", "p", "l", "a", "c", "e", "m", "e", "n", "t">>>>],
            [sub_intent |-> "COUNTERTOP_REPAIR", keywords |->
              <<<<"c", "o", "u", "n", "t", "e", "r", "t", "o", "p">>,
                <<"c", "o", "u", "n", "t", "e", "r", " ", "r", "e", "p", "a", "i", "r">>,
                <<"c", "o", "u", "n", "t", "e", "r", " ", "r", "e", "p", "l", "a", "c", "e", "m", "e", "n", "t">>>>],
            [sub_intent |-> "TILE_WORK", keywords |->
              <<<<"t", "i", "l", "e", " ", "w", "o", "r", "k">>,
                <<"t", "i", "l", "e", " ", "r", "e", "p", "a", "i", "r">>,
                <<"t", "i", "l", "e", " ", "i", "n", "s", "t", "a", "l", "l", "a", "t", "i", "o", "n">>>>]>>
      [] intent = "QUOTE_REQUEST" ->
          <<[sub_intent |-> "ESTIMATE_REQUEST", keywords |->
              <<<<"e", "s", "t", "i", "m", "a", "t", "e">>,
                <<"q", "u", "o", "t", "e">>,
                <<"p", "r", "i", "c", "i", "n", "g">>,
                <<"c", "o", "s", "t">>,
                <<"l", "o", "o", "k", "i", "n", "g", " ", "f", "o", "r", " ", "a", " ", "q", "u", "o", "t", "e">>>>],
            [sub_intent |-> "CONSULTATION", keywords |->
              <<<<"c", "o", "n", "s", "u", "l", "t", "a", "t", "i", "o", "n">>,
                <<"c", "o", "n", "s", "u", "l", "t">>,
                <<"d", "i", "s", "c", "u", "s", "s">>,
                <<"a", "d", "v", "i", "c", "e">>,
                <<"l", "i", "s", "t", "i", "n", "g">>,
                <<"w", "e", "b", "s", "i", "t", "e">>>>],
            [sub_intent |-> "PRICE_INQUIRY", keywords |->
              <<<<"p", "r", "i", "c", "e">>,
                <<"h", "o", "w", " ", "m", "u", "c", "h">>,
                <<"c", "o", "s", "t", " ", "i", "n", "q", "u", "i", "r", "y">>>>],
            [sub_intent |-> "SERVICE_COMPARISON", keywords |->
              <<<<"c", "o", "m", "p", "a", "r", "e">>,
                <<"c", "o", "m", "p", "a", "r", "i", "s", "o", "n">>,
                <<"o", "p", "t", "i", "o", "n", "s">>>>]>>
      [] intent = "EMERGENCY_REPAIR" ->
          <<[sub_intent |-> "EMERGENCY_REPAIR", keywords |->
              <<<<"e", "m", "e", "r", "g", "e", "n", "c", "y">>,
                <<"u", "r", "g", "e", "n", "t">>,
                <<"a", "s", "a", "p">>,
                <<"i", "m", "m", "e", "d", "i", "a", "t", "e", "l", "y">>>>]>>
      [] intent = "COMPLAINT" ->
          <<[sub_intent |-> "COMPLAINT", keywords |->
              <<<<"c", "o", "m", "p", "l", "a", "i", "n", "t">>,
                <<"i", "s", "s", "u", "e">>,
                <<"p", "r", "o", "b", "l", "e", "m">>,
                <<"u", "n", "h", "a", "p", "p", "y">>,
                <<"d", "i", "s", "s", "a", "t", "i", "s", "f", "i", "e", "d">>>>]>>
      [] intent = "GENERAL_CONTRACTOR" ->
          <<[sub_intent |-> "GENERAL_INQUIRY", keywords |->
              <<<<"g", "e", "n", "e", "r", "a", "l">>,
                <<"c", "o", "n", "t", "r", "a", "c", "t", "o", "r">>,
                <<"m", "u", "l", "t", "i", "p", "l", "e">>,
                <<"v", "a", "r", "i", "o", "u", "s">>>>]>>
      [] intent = "OTHER" ->
          <<[sub_intent |-> "TEST_CALL", keywords |->
              <<<<"t", "e", "s", "t", " ", "c", "a", "l", "l">>,
                <<"t", "e", "s", "t", "i", "n", "g">>,
                <<"t", "e", "s", "t">>,
                <<"p", "r", "e", "p", "a", "r", "e", " ", "f", "o", "r", " ", "i", "n", "c", "o", "m", "i", "n", "g", " ", "l", "e", "a", "d", "s">>,
                <<"b", "e", " ", "r", "e", "a", "d", "y">>>>],
            [sub_intent |-> "WRONG_NUMBER", keywords |->
              <<<<"w", "r", "o", "n", "g", " ", "n", "u", "m", "b", "e", "r">>,
                <<"m", "i", "s", "t", "a", "k", "e">>,
                <<"m", "i", "s", "d", "i", "a", "l", "e", "d">>,
                <<"n", "o", "t", " ", "r", "e", "l", "e", "v", "a", "n", "t">>,
                <<"a", "t", "&", "t">>,
                <<"i", "n", "t", "e", "r", "n", "e", "t", " ", "s", "e", "r", "v", "i", "c", "e">>,
                <<"b", "u", "s", "i", "n", "e", "s", "s", " ", "i", "n", "t", "e", "r", "n", "e", "t">>>>],
            [sub_intent |-> "APPOINTMENT_SCHEDULING", keywords |->
              <<<<"a", "p", "p", "o", "i", "n", "t", "m", "e", "n", "t">>,
                <<"s", "c", "h", "e", "d", "u", "l", "e">>,
                <<"b", "o", "o", "k", "i", "n", "g">>>>],
            [sub_intent |-> "COMPLAINT", keywords |->
              <<<<"c", "o", "m", "p", "l", "a", "i", "n", "t">>,
                <<"i", "s", "s", "u", "e">>,
                <<"p", "r", "o", "b", "l", "e", "m">>,
                <<"u", "n", "h", "a", "p", "p", "y">>>>],
            [sub_intent |-> "GENERAL_INQUIRY", keywords |->
              <<<<"g", "r", "e", "e", "t", "i", "n", "g">>,
                <<"a", "u", "d", "i", "o", " ", "c", "l", "a", "r", "i", "t", "y">>,
                <<"c", "o", "n", "f", "i", "r", "m", "i", "n", "g">>,
                <<"b", "r", "i", "e", "f">>,
                <<"n", "o", " ", "s", "p", "e", "c", "i", "f", "i", "c", " ", "i", "n", "q", "u", "i", "r", "y">>,
                <<"i", "n", "f", "o", "r", "m", "a", "t", "i", "o", "n">>>>]>>

\* str.lower() on ASCII text.
LowerChar(c) ==
    CASE c = "A" -> "a"
      [] c = "B" -> "b"
      [] c = "C" -> "c"
      [] c = "D" -> "d"
      [] c = "E" -> "e"
      [] c = "F" -> "f"
      [] c = "G" -> "g"
      [] c = "H" -> "h"
      [] c = "I" -> "i"
      [] c = "J" -> "j"
      [] c = "K" -> "k"
      [] c = "L" -> "l"
      [] c = "M" -> "m"
      [] c = "N" -> "n"
      [] c = "O" -> "o"
      [] c = "P" -> "p"
      [] c = "Q" -> "q"
      [] c = "R" -> "r"
      [] c = "S" -> "s"
      [] c = "T" -> "t"
      [] c = "U" -> "u"
      [] c = "V" -> "v"
      [] c = "W" -> "w"
      [] c = "X" -> "x"
      [] c = "Y" -> "y"
      [] c = "Z" -> "z"
      [] OTHER -> c

lower(s) == [i \in 1..Len(s) |-> LowerChar(s[i])]

\* keyword in summary_lower
Contains(s, keyword) ==
    \E i \in 1..(Len(s) - Len(keyword) + 1) :
        SubSeq(s, i, i + Len(keyword) - 1) = keyword

\* Variant: every keyword found counts 1.
RECURSIVE keyword_count(_, _)
keyword_count(keywords, summary_lower) ==
    IF keywords = <<>> THEN 0
    ELSE keyword_count(Tail(keywords), summary_lower)
           + (IF Contains(summary_lower, Head(keywords)) THEN 1 ELSE 0)

\* Lines 695-698: the score of one candidate.
RECURSIVE keyword_score(_, _)
keyword_score(keywords, summary_lower) ==
    IF keywords = <<>> THEN 0
    ELSE keyword_score(Tail(keywords), summary_lower)
           + (IF Contains(summary_lower, Head(keywords)) THEN Len(Head(keywords)) ELSE 0)

\* max(scores, key=scores.get) over positions 1..n: the first position that
\* holds the highest score.
RECURSIVE FirstMax(_, _)
FirstMax(scores, n) ==
    IF n = 1 THEN 1
    ELSE LET best == FirstMax(scores, n - 1)
         IN  IF scores[n] > scores[best] THEN n ELSE best

\* Summaries given to the scorer.
Summaries ==
    {<<"C", "u", "s", "t", "o", "m", "e", "r", " ", "c", "a", "l", "l", "e", "d", " ", "a", "b", "o", "u", "t", " ", "r", "o", "o", "f", " ", "l", "e", "a", "k">>,
     <<"T", "h", "e", " ", "c", "a", "l", "l", "e", "r", " ", "a", "s", "k", "e", "d", " ", "a", "b", "o", "u", "t", " ", "a", " ", "r", "o", "o", "f", " ", "l", "e", "a", "k", ".">>,
     <<"c", "u", "s", "t", "o", "m", "e", "r", " ", "r", "e", "p", "o", "r", "t", "s", " ", "a", " ", "l", "e", "a", "k", " ", "i", "n", " ", "t", "h", "e", " ", "r", "o", "o", "f">>,
     <<"A", "s", "s", "e", "s", "s", "m", "e", "n", "t", ",", " ", "t", "h", "e", "n", " ", "F", "I", "X", " ", "t", "h", "e", " ", "L", "E", "A", "K">>,
     <<"I", "n", "s", "t", "a", "l", "l", ";", " ", "f", "i", "x", " ", "l", "e", "a", "k">>,
     <<"h", "e", "l", "l", "o">>,
     <<>>,
     <<"L", "e", "a", "k", "i", "n", "g", " ", "p", "i", "p", "e", " ", "l", "e", "a", "k">>,
     <<"W", "a", "n", "t", "s", " ", "a", " ", "q", "u", "o", "t", "e", ":", " ", "h", "o", "w", " ", "m", "u", "c", "h">>,
     <<"U", "n", "h", "a", "p", "p", "y", ",", " ", "U", "R", "G", "E", "N", "T">>}

ScoredIntents == ValidIntents \cup {"", "BOGUS"}

\* _classify_sub_intent_keywords on the text of a summary.
classify_sub_intent_by_score(intent, summary) ==
    IF intent \notin PatternIntents THEN "GENERAL_INQUIRY"
    ELSE LET intent_patterns == patterns(intent)
             scores == [i \in 1..Len(intent_patterns) |->
                           keyword_score(intent_patterns[i].keywords, lower(summary))]
             best == FirstMax(scores, Len(scores))
         IN  IF scores[best] > 0 THEN intent_patterns[best].sub_intent
             ELSE DefaultSubIntent(intent)

\* One call of _classify_sub_intent_keywords.
classify_sub_intent_call ==
    /\ call.op = "none"
    /\ \E intent \in ScoredIntents, summary \in Summaries :
          call' = [op |-> "_classify_sub_intent_keywords", intent |-> intent,
                   summary |-> summary,
                   out |-> classify_sub_intent_by_score(intent, summary)]
    /\ UNCHANGED <<storeVars, watchVars, procVars, histVars, wait, sync, life>>

\* Parsed JSON bodies with both required fields: intents inside and
\* outside valid_intents (wrong case, unknown, empty), with and without a
\* sub_intent.
JsonResults ==
    {[summary |-> RoofLeakSummary, intent |-> i] :
        i \in {"ROOFING", "OTHER", "FLOORING", "roofing", "BANANA", ""}}
      \cup {[summary |-> RoofLeakSummary, intent |-> i, sub_intent |-> s] :
              i \in {"ROOFING", "roofing", "BANANA"}, s \in {"roof_repair", "GENERAL", ""}}

\* _analyze_with_openai for a response that json.loads accepts and that has
\* 'summary' and 'intent', lines 503-528.
analyze_json_call ==
    /\ call.op = "none"
    /\ \E body \in JsonResults :
          call' = [op |-> "_analyze_with_openai", body |-> body,
                   out |-> ValidatedAnalysis(body)]
    /\ UNCHANGED <<storeVars, watchVars, procVars, histVars, wait, sync, life>>

\* ------------------------------------------------- text-scan fallback
UpperChar(c) ==
    IF \E u \in {"A", "B", "C", "D", "E", "F", "G", "H", "I", "J", "K", "L", "M", "N", "O", "P", "Q", "R", "S", "T", "U", "V", "W", "X", "Y", "Z"} : LowerChar(u) = c
    THEN CHOOSE u \in {"A", "B", "C", "D", "E", "F", "G", "H", "I", "J", "K", "L", "M", "N", "O", "P", "Q", "R", "S", "T", "U", "V", "W", "X", "Y", "Z"} : LowerChar(u) = c
    ELSE c

\* str.upper() on ASCII text.
upper(s) == [i \in 1..Len(s) |-> UpperChar(s[i])]

\* str.strip(chars): the characters of the set removed at both ends.
RECURSIVE strip(_, _)
strip(s, chars) ==
    IF s = <<>> THEN s
    ELSE IF Head(s) \in chars THEN strip(Tail(s), chars)
    ELSE IF s[Len(s)] \in chars THEN strip(SubSeq(s, 1, Len(s) - 1), chars)
    ELSE s

Whitespace == {" ", "\n"}
Quotes == {"\"", "'"}

\* First position from i on where the separator starts, else 0.
FindFrom(s, i, sep) ==
    IF \E j \in i..(Len(s) - Len(sep) + 1) : SubSeq(s, j, j + Len(sep) - 1) = sep
    THEN CHOOSE j \in i..(Len(s) - Len(sep) + 1) :
            /\ SubSeq(s, j, j + Len(sep) - 1) = sep
            /\ \A k \in i..(j - 1) : SubSeq(s, k, k + Len(sep) - 1) # sep
    ELSE 0

\* str.split(sep): the pieces between the separators.
RECURSIVE split(_, _)
split(s, sep) ==
    LET j == FindFrom(s, 1, sep)
    IN  IF j = 0 THEN <<s>>
        ELSE <<SubSeq(s, 1, j - 1)>> \o split(SubSeq(s, j + Len(sep), Len(s)), sep)

\* line.split(':', 1)[1]
AfterColon(line) == SubSeq(line, FindFrom(line, 1, <<":">>) + 1, Len(line))

\* The spelling of the entries of valid_intents.
Spelling(intent) ==
    CASE intent = "ROOFING" -> <<"R", "O", "O", "F", "I", "N", "G">>
      [] intent = "WINDOWS_DOORS" -> <<"W", "I", "N", "D", "O", "W", "S", "_", "D", "O", "O", "R", "S">>
      [] intent = "PLUMBING" -> <<"P", "L", "U", "M", "B", "I", "N", "G">>
      [] intent = "ELECTRICAL" -> <<"E", "L", "E", "C", "T", "R", "I", "C", "A", "L">>
      [] intent = "HVAC" -> <<"H", "V", "A", "C">>
      [] intent = "FLOORING" -> <<"F", "L", "O", "O", "R", "I", "N", "G">>
      [] intent = "SIDING_EXTERIOR" -> <<"S", "I", "D", "I", "N", "G", "_", "E", "X", "T", "E", "R", "I", "O", "R">>
      [] intent = "KITCHEN_BATH" -> <<"K", "I", "T", "C", "H", "E", "N", "_", "B", "A", "T", "H">>
      [] intent = "GENERAL_CONTRACTOR" -> <<"G", "E", "N", "E", "R", "A", "L", "_", "C", "O", "N", "T", "R", "A", "C", "T", "O", "R">>
      [] intent = "EMERGENCY_REPAIR" -> <<"E", "M", "E", "R", "G", "E", "N", "C", "Y", "_", "R", "E", "P", "A", "I", "R">>
      [] intent = "QUOTE_REQUEST" -> <<"Q", "U", "O", "T", "E", "_", "R", "E", "Q", "U", "E", "S", "T">>
      [] intent = "COMPLAINT" -> <<"C", "O", "M", "P", "L", "A", "I", "N", "T">>
      [] intent = "OTHER" -> <<"O", "T", "H", "E", "R">>

\* The fixed texts of _extract_from_text_response.
CallAnalysisCompleted == <<"C", "a", "l", "l", " ", "a", "n", "a", "l", "y", "s", "i", "s", " ", "c", "o", "m", "p", "l", "e", "t", "e", "d">>
CallTranscribedSuccessfully == <<"C", "a", "l", "l", " ", "t", "r", "a", "n", "s", "c", "r", "i", "b", "e", "d", " ", "s", "u", "c", "c", "e", "s", "s", "f", "u", "l", "l", "y">>
GENERAL_INQUIRY == <<"G", "E", "N", "E", "R", "A", "L", "_", "I", "N", "Q", "U", "I", "R", "Y">>
GENERAL == <<"G", "E", "N", "E", "R", "A", "L">>

\* Lines 563-587 for one line of the response; `found` is summary, intent
\* and sub_intent so far.
ScanLine(found, raw) ==
    LET line == strip(raw, Whitespace)
        line_lower == lower(line)
        colon == Contains(line, <<":">>)
        value == strip(strip(AfterColon(line), Whitespace), Quotes)
    IN  IF Contains(line_lower, <<"s", "u", "m", "m", "a", "r", "y">>) /\ colon
        THEN [found EXCEPT !.summary = strip(value, Whitespace)]
        ELSE IF Contains(line_lower, <<"i", "n", "t", "e", "n", "t">>) /\ colon /\ ~Contains(line_lower, <<"s", "u", "b">>)
        THEN (IF \E v \in ValidIntents : Spelling(v) = upper(value)
              THEN [found EXCEPT !.intent = CHOOSE v \in ValidIntents : Spelling(v) = upper(value),
                                 !.named = TRUE]
              ELSE found)
        ELSE IF Contains(line_lower, <<"s", "u", "b", "_", "i", "n", "t", "e", "n", "t">>) /\ colon
        THEN [found EXCEPT !.sub_intent = upper(value), !.scanned = TRUE]
        ELSE found

RECURSIVE ScanLines(_, _)
ScanLines(found, lines) ==
    IF lines = <<>> THEN found
    ELSE ScanLines(ScanLine(found, Head(lines)), Tail(lines))

\* Lines 590-597: the first sentence of the response, ended by a full stop.
FirstSentence(content) ==
    LET first == strip(split(content, <<".", " ">>)[1], Whitespace)
    IN  IF first # <<>> /\ first[Len(first)] = "." THEN first ELSE Append(first, ".")

\* _extract_from_text_response on the text of a response (line 487 has
\* stripped it): summary as text, intent as an entry of valid_intents,
\* sub_intent as the scanned text or as the one-element text of the
\* keyword scorer's answer.  The texts of the model are shorter than the
\* cuts at 200 and 500 characters.
extract_from_text(content) ==
    LET found == ScanLines([summary |-> CallAnalysisCompleted, intent |-> "OTHER",
                            sub_intent |-> GENERAL_INQUIRY,
                            named |-> FALSE, scanned |-> FALSE],
                           split(strip(content, Whitespace), <<"\n">>))
        basic == IF found.summary = CallAnalysisCompleted /\ content # <<>>
                 THEN FirstSentence(content)
                 ELSE found.summary
        summary == IF strip(basic, Whitespace) = <<>>
                   THEN CallTranscribedSuccessfully ELSE basic
        generic == found.sub_intent \in {GENERAL_INQUIRY, GENERAL}
    IN  [summary |-> summary,
         intent |-> found.intent,
         sub_intent |-> IF generic
                        THEN <<classify_sub_intent_by_score(found.intent, summary)>>
                        ELSE found.sub_intent,
         scored |-> generic, named |-> found.named, scanned |-> found.scanned]

\* Responses that json.loads rejects, as the provider sends them.
TextResponses ==
    {<<"I", "n", "t", "e", "n", "t", ":", " ", "R", "O", "O", "F", "I", "N", "G", "\n", "T", "h", "e", " ", "c", "u", "s", "t", "o", "m", "e", "r", " ", "r", "e", "p", "o", "r", "t", "s", " ", "a", " ", "l", "e", "a", "k">>,
     <<"T", "h", "e", " ", "c", "a", "l", "l", "e", "r", " ", "a", "s", "k", "e", "d", " ", "a", "b", "o", "u", "t", " ", "a", " ", "r", "o", "o", "f", " ", "l", "e", "a", "k", ".", " ", "T", "h", "a", "n", "k", "s">>,
     <<"S", "u", "m", "m", "a", "r", "y", ":", " ", "\"", "W", "a", "n", "t", "s", " ", "n", "e", "w", " ", "r", "o", "o", "f", "\"", "\n", "I", "n", "t", "e", "n", "t", ":", " ", "r", "o", "o", "f", "i", "n", "g", "\n", "S", "u", "b", "_", "i", "n", "t", "e", "n", "t", ":", " ", "r", "o", "o", "f", "_", "r", "e", "p", "l", "a", "c", "e", "m", "e", "n", "t">>,
     <<"s", "u", "m", "m", "a", "r", "y", ":", " ", "x", "\n", "i", "n", "t", "e", "n", "t", ":", " ", "B", "A", "N", "A", "N", "A">>,
     <<>>,
     <<"S", "u", "m", "m", "a", "r", "y", ":", "\n", "I", "n", "t", "e", "n", "t", ":", " ", "P", "L", "U", "M", "B", "I", "N", "G">>,
     <<"I", "n", "t", "e", "n", "t", ":", " ", "H", "V", "A", "C", "\n", "S", "u", "b", "_", "i", "n", "t", "e", "n", "t", ":">>,
     <<"I", "n", "t", "e", "n", "t", ":", " ", "H", "V", "A", "C", "\n", "S", "u", "b", "_", "i", "n", "t", "e", "n", "t", ":", " ", "g", "e", "n", "e", "r", "a", "l">>,
     <<" ", " ", "I", "n", "t", "e", "n", "t", ":", " ", "'", "C", "O", "M", "P", "L", "A", "I", "N", "T", "'", " ", " ">>,
     <<"{", "\"", "s", "u", "m", "m", "a", "r", "y", "\"", ":", " ", "\"", "l", "e", "a", "k", "\"", ",", " ", "\"", "i", "n", "t", "e", "n", "t", "\"", ":", " ", "\"", "R", "O", "O", "F", "I", "N", "G", "\"", ",", "}">>,
     <<"S", "u", "b", "-", "i", "n", "t", "e", "n", "t", ":", " ", "X", "\n", "n", "o", " ", "l", "a", "b", "e", "l", " ", "h", "e", "r", "e">>}

\* _analyze_with_openai for a response that raises json.JSONDecodeError,
\* lines 487-536: the stripped content goes to the text scan, whose result
\* is returned at once.
extract_from_text_call ==
    /\ call.op = "none"
    /\ \E raw \in TextResponses :
          LET content == strip(raw, Whitespace)
          IN  call' = [op |-> "_extract_from_text_response", content |-> content,
                       out |-> extract_from_text(content),
                       attempts |-> 1]
    /\ UNCHANGED <<storeVars, watchVars, procVars, histVars, wait, sync, life>>

\* --------------------------------------------------- filename metadata
\* Filenames are sequences of characters.
Digit == {"0", "1", "2", "3", "4", "5", "6", "7", "8", "9"}

DigitVal(c) ==
    CASE c = "0" -> 0 [] c = "1" -> 1 [] c = "2" -> 2 [] c = "3" -> 3 [] c = "4" -> 4
      [] c = "5" -> 5 [] c = "6" -> 6 [] c = "7" -> 7 [] c = "8" -> 8 [] c = "9" -> 9

DigitChar(n) == CHOOSE c \in Digit : DigitVal(c) = n

\* int() of a text of decimal digits.
RECURSIVE int(_)
int(s) == IF s = <<>> THEN 0 ELSE int(SubSeq(s, 1, Len(s) - 1)) * 10 + DigitVal(s[Len(s)])

\* Zero-padded decimal text, as isoformat() writes a field.
RECURSIVE Padded(_, _)
Padded(n, width) ==
    IF width = 0 THEN <<>> ELSE Append(Padded(n \div 10, width - 1), DigitChar(n % 10))

\* The segments the filenames of the model are built from.
ValidDates == {<<"2", "0", "2", "5", "0", "8", "2", "8">>,
     <<"2", "0", "2", "4", "0", "2", "2", "9">>}
InvalidDates == {<<"2", "0", "2", "5", "0", "2", "3", "0">>,
     <<"2", "0", "2", "5", "1", "3", "0", "1">>}
ValidTimes == {<<"1", "0", "3", "0", "0", "0">>,
     <<"2", "3", "5", "9", "5", "9">>}
InvalidTimes == {<<"2", "4", "6", "0", "0", "0">>}
Minutes == {<<"0", "2">>,
     <<"1", "2", "0">>}
Seconds == {<<"0", "0">>,
     <<"7", "5">>}
Phones == {<<"5", "5", "5">>,
     <<"+", "1", "-", "5">>}
Statuses == {<<"a", "n", "s", "w", "e", "r", "e", "d">>,
     <<"N", "A">>}
Agents == {<<"A", "g", "e", "n", "t">>,
     <<"A", "_", "B">>,
     <<"j", ".", "s">>}
Extensions == {<<"m", "p", "3">>,
     <<"w", "a", "v">>}

FilenameParts ==
    [date : ValidDates \cup InvalidDates, time : ValidTimes \cup InvalidTimes,
     dur_min : Minutes, dur_sec : Seconds, phone : Phones, status : Statuses,
     agent : Agents, ext : Extensions]

NoParts == [date |-> <<>>]

\* YYYYMMDD_HHMMSS<dur_min>m<dur_sec>s_<phone>_<status>_<agent>.<ext>
FilenameOf(p) ==
    p.date \o <<"_">> \o p.time \o p.dur_min \o <<"m">> \o p.dur_sec \o <<"s", "_">>
      \o p.phone \o <<"_">> \o p.status \o <<"_">> \o p.agent \o <<".">> \o p.ext

\* Names that do not follow the pattern.
Malformed ==
    {<<"r", "a", "n", "d", "o", "m", ".", "m", "p", "3">>,
     <<"2", "0", "2", "5", "0", "8", "2", "_", "1", "0", "3", "0", "0", "0", "0", "2", "m", "0", "0", "s", "_", "5", "5", "5", "_", "N", "A", "_", "A", "g", "e", "n", "t", ".", "m", "p", "3">>,
     <<"2", "0", "2", "5", "0", "8", "2", "8", "_", "1", "0", "3", "0", "0", "0", "0", "2", "0", "0", "s", "_", "5", "5", "5", "_", "N", "A", "_", "A", "g", "e", "n", "t", ".", "m", "p", "3">>,
     <<"2", "0", "2", "5", "0", "8", "2", "8", "_", "1", "0", "3", "0", "0", "0", "0", "2", "m", "0", "0", "s", "_", "5", "5", "5", "_", "N", "A", ".", "m", "p", "3">>,
     <<"2", "0", "2", "5", "0", "8", "2", "8", "_", "1", "0", "3", "0", "0", "0", "0", "2", "m", "0", "0", "s", "_", "_", "N", "A", "_", "A", "g", "e", "n", "t", ".", "m", "p", "3">>,
     <<"2", "0", "2", "5", "0", "8", "2", "8", "_", "1", "0", "3", "0", "0", "0", "0", "2", "m", "0", "0", "s", "_", "5", "5", "5", "_", "N", "A", "_", "A", "g", "e", "n", "t">>,
     <<"2", "0", "2", "5", "0", "8", "2", "8", "-", "1", "0", "3", "0", "0", "0", "0", "2", "m", "0", "0", "s", "_", "5", "5", "5", "_", "N", "A", "_", "A", "g", "e", "n", "t", ".", "m", "p", "3">>,
     <<"2", "0", "2", "5", "0", "8", "2", "8", "_", "1", "0", "3", "0", "0", "0", "m", "0", "0", "s", "_", "5", "5", "5", "_", "N", "A", "_", "A", "g", "e", "n", "t", ".", "m", "p", "3">>}

Filenames ==
    {[text |-> FilenameOf(p), parts |-> p] : p \in FilenameParts}
      \cup {[text |-> m, parts |-> NoParts] : m \in Malformed}

\* Line 49-57: the metadata before the match; None is Python's None.
None == <<"None">>

NoMetadata ==
    [call_date |-> None, call_time |-> None, call_datetime |-> None,
     phone_number |-> None, call_status |-> None, agent_name |-> None,
     estimated_duration_seconds |-> 0]

\* First position from i on whose character is outside the set, else Len + 1.
FirstNot(s, i, set) ==
    CHOOSE j \in i..(Len(s) + 1) :
        /\ j = Len(s) + 1 \/ s[j] \notin set
        /\ \A k \in i..(j - 1) : s[k] \in set

\* First position from i on that holds the character, else Len + 1.
FirstIs(s, i, c) ==
    CHOOSE j \in i..(Len(s) + 1) :
        /\ j = Len(s) + 1 \/ s[j] = c
        /\ \A k \in i..(j - 1) : s[k] # c

\* Last position from i on that holds the character, else 0.
LastIs(s, i, c) ==
    IF \E j \in i..Len(s) : s[j] = c
    THEN CHOOSE j \in i..Len(s) : s[j] = c /\ \A k \in (j + 1)..Len(s) : s[k] # c
    ELSE 0

NoMatch == [matched |-> FALSE]

\* re.match of (\d{8})_(\d{6})(\d+)m(\d+)s_([^_]+)_([^_]+)_(.+)\. at the start
\* of the filename, lines 61-65: the groups, or no match.  Each group ends
\* at the first character it cannot take; the last one is greedy and ends
\* before the last dot.
re_match(s) ==
    LET a == FirstNot(s, 16, Digit)
        b == FirstNot(s, a + 1, Digit)
        c == FirstIs(s, b + 2, "_")
        d == FirstIs(s, c + 1, "_")
        e == LastIs(s, d + 2, ".")
    IN  IF /\ Len(s) >= 15
           /\ \A i \in 1..8 : s[i] \in Digit
           /\ s[9] = "_"
           /\ \A i \in 10..15 : s[i] \in Digit
           /\ a > 16 /\ a <= Len(s) /\ s[a] = "m"
           /\ b > a + 1 /\ b < Len(s) /\ s[b] = "s" /\ s[b + 1] = "_"
           /\ c > b + 2 /\ c <= Len(s)
           /\ d > c + 1 /\ d <= Len(s)
           /\ e # 0
        THEN [matched |-> TRUE,
              date_str |-> SubSeq(s, 1, 8), time_str |-> SubSeq(s, 10, 15),
              duration_min |-> SubSeq(s, 16, a - 1),
              duration_sec |-> SubSeq(s, a + 1, b - 1),
              phone |-> SubSeq(s, b + 2, c - 1), status |-> SubSeq(s, c + 1, d - 1),
              agent |-> SubSeq(s, d + 1, e - 1)]
        ELSE NoMatch

IsLeap(y) == y % 4 = 0 /\ (y % 100 # 0 \/ y % 400 = 0)

DaysIn(y, m) ==
    IF m = 2 THEN (IF IsLeap(y) THEN 29 ELSE 28)
    ELSE IF m \in {4, 6, 9, 11} THEN 30 ELSE 31

\* datetime.strptime(date_str, '%Y%m%d') and (time_str, '%H%M%S') on eight
\* and six digits, lines 68-69: ValueError unless they are a date and a time.
strptime_raises(date_str, time_str) ==
    LET y == int(SubSeq(date_str, 1, 4))
        m == int(SubSeq(date_str, 5, 6))
        d == int(SubSeq(date_str, 7, 8))
    IN  \/ y < 1 \/ m \notin 1..12 \/ d \notin 1..DaysIn(y, m)
        \/ int(SubSeq(time_str, 1, 2)) > 23
        \/ int(SubSeq(time_str, 3, 4)) > 59
        \/ int(SubSeq(time_str, 5, 6)) > 59

\* date.isoformat() and time.isoformat(), lines 76-77.
date_isoformat(date_str) ==
    Padded(int(SubSeq(date_str, 1, 4)), 4) \o <<"-">>
      \o Padded(int(SubSeq(date_str, 5, 6)), 2) \o <<"-">>
      \o Padded(int(SubSeq(date_str, 7, 8)), 2)

time_isoformat(time_str) ==
    Padded(int(SubSeq(time_str, 1, 2)), 2) \o <<":">>
      \o Padded(int(SubSeq(time_str, 3, 4)), 2) \o <<":">>
      \o Padded(int(SubSeq(time_str, 5, 6)), 2)

\* Variant: the seconds are left out.
estimated_duration_minutes(duration_min, duration_sec) == int(duration_min) * 60

\* Line 73.
estimated_duration(duration_min, duration_sec) ==
    int(duration_min) * 60 + int(duration_sec)

\* Variant: no handler around the parsing.
extract_except_absent(e) == FALSE

\* Line 95: except Exception around the whole extraction.
extract_except(e) == TRUE

Raised == [raised |-> TRUE]

\* _extract_filename_metadata: the metadata dict, or the exception that
\* leaves the function.
extract_filename_metadata(filename) ==
    LET match == re_match(filename)
    IN  IF ~match.matched THEN NoMetadata
        ELSE IF strptime_raises(match.date_str, match.time_str)
        THEN (IF extract_except("ValueError") THEN NoMetadata ELSE Raised)
        ELSE [call_date |-> date_isoformat(match.date_str),
              call_time |-> time_isoformat(match.time_str),
              call_datetime |-> date_isoformat(match.date_str) \o <<"T">>
                                  \o time_isoformat(match.time_str),
              phone_number |-> match.phone,
              call_status |-> match.status,
              agent_name |-> match.agent,
              estimated_duration_seconds |->
                  estimated_duration(match.duration_min, match.duration_sec)]

\* process_audio_file, lines 141-166, for a filename of any shape: the
\* extraction runs before the try block, so an exception leaving it would
\* leave process_audio_file too; otherwise the result dict is built and the
\* next step is the transcription.
extract_metadata_call ==
    /\ call.op = "none"
    /\ \E filename \in Filenames :
          LET metadata == extract_filename_metadata(filename.text)
          IN  call' = [op |-> "_extract_filename_metadata",
                       filename |-> filename.text, parts |-> filename.parts,
                       out |-> metadata,
                       next |-> IF metadata = Raised THEN "raised" ELSE "transcribe"]
    /\ UNCHANGED <<storeVars, watchVars, procVars, histVars, wait, sync, life>>

\* ----------------------------------------------- relocation of namesakes
\* Source files of one filename, one per sub-directory of the audio folder
\* (the scan of existing files is recursive).
Sources == 1..NumSources

\* Names of the processed folder for that filename, by numeric suffix;
\* 0 is the name without suffix.
Suffixes == 0..NumSources

NoMove == [pc |-> "idle", file_path |-> 0, processed_path |-> 0]

\* The names in use, as the set free_processed_path reads.
ProcessedNames(at) == {<<1, k>> : k \in {j \in Suffixes : at[j] # 0}}

\* Files of one filename are in the audio folder; the processed folder may
\* hold a file of that name from an earlier run (source 0 is no file).
same_name_files ==
    /\ call.op = "none"
    /\ \E src \in SUBSET Sources \ {{}}, old \in {0, NumSources + 1} :
          call' = [op |-> "_move_to_processed", src |-> src,
                   at |-> [k \in Suffixes |-> IF k = 0 THEN old ELSE 0],
                   mover |-> [t \in Threads |-> NoMove],
                   relocated |-> {}, overwritten |-> {}]
    /\ UNCHANGED <<storeVars, watchVars, procVars, histVars, wait, sync, life>>

\* _move_to_processed, lines 726-735: the loop on processed_path.exists()
\* ends at the first name that is not in use.
pick_processed_path(t) ==
    /\ call.op = "_move_to_processed"
    /\ call.mover[t].pc = "idle"
    /\ \E d \in call.src :
          /\ \A u \in Threads : call.mover[u].file_path # d
          /\ call' = [call EXCEPT !.mover[t] =
                 [pc |-> "move", file_path |-> d,
                  processed_path |-> free_processed_path(ProcessedNames(call.at), 1)]]
    /\ UNCHANGED <<storeVars, watchVars, procVars, histVars, wait, sync, life>>

\* Line 737: shutil.move puts the file at the name picked, replacing what
\* is there by then; an I/O error leaves both folders as they were and is
\* swallowed at line 740.
shutil_move(t) ==
    /\ call.op = "_move_to_processed"
    /\ call.mover[t].pc = "move"
    /\ LET d == call.mover[t].file_path
           k == call.mover[t].processed_path
       IN  \E ioError \in BOOLEAN :
             call' = IF ioError
                     THEN [call EXCEPT !.mover[t] = NoMove]
                     ELSE [call EXCEPT !.mover[t] = NoMove,
                                       !.src = @ \ {d},
                                       !.at[k] = d,
                                       !.relocated = @ \cup {d},
                                       !.overwritten = @ \cup ({call.at[k]} \ {0})]
    /\ UNCHANGED <<storeVars, watchVars, procVars, histVars, wait, sync, life>>

\* ------------------------------------------------------ disposition batch
\* Columns that add_disposition_columns appends to the header.
primary_disposition == Len(get_csv_headers) + 1
secondary_disposition == Len(get_csv_headers) + 2

\* The 'timestamp' column; the times of the model are numbers.
timestamp == Len(get_csv_headers) + 3

\* A row of the store with its dispositions, written at time n; <<>> is the
\* empty cell.
BatchRow(n, transcription, disposition) ==
    RowOf(SetKey([NewResult(n) EXCEPT !.transcription = transcription,
                                      !.status = "completed"], "sub_intent", ""))
      \o <<disposition, disposition, n>>

\* Stores of up to MaxBatch rows: all unclassified; every third row without
\* a transcription; the first row classified already.
BatchStores ==
    {[i \in 1..n |->
        IF kind = "skip" /\ i % 3 = 0 THEN BatchRow(i, "No transcription available", <<>>)
        ELSE IF kind = "done" /\ i = 1 THEN BatchRow(i, "hello", <<"OTHER">>)
        ELSE BatchRow(i, "hello", <<>>)] :
      n \in 0..MaxBatch, kind \in {"need", "skip", "done"}}

\* Lines 863-868: the rows with an empty disposition cell, by position.
RECURSIVE NeedsFrom(_, _)
NeedsFrom(df, i) ==
    IF i > Len(df) THEN <<>>
    ELSE IF df[i][primary_disposition] = <<>> \/ df[i][secondary_disposition] = <<>>
    THEN <<i>> \o NeedsFrom(df, i + 1)
    ELSE NeedsFrom(df, i + 1)

needs_classification(df) == NeedsFrom(df, 1)

\* start_date and end_date of a call: not given, or a range that leaves out
\* the first row and the rows after the third.
DateRanges ==
    {[given |-> FALSE, start_date |-> 0, end_date |-> 0],
     [given |-> TRUE, start_date |-> 2, end_date |-> 3]}

\* Lines 856-860: with a date range the frame is replaced by its rows of
\* the range.
InDateRange(df, range) ==
    IF range.given
    THEN SelectSeq(df, LAMBDA row : /\ row[timestamp] >= range.start_date
                                    /\ row[timestamp] <= range.end_date)
    ELSE df

\* The provider's answer during one run of the batch.
BatchCompletions ==
    {[kind |-> "content", content |-> <<"A", "|", "A">>],
     [kind |-> "raises", content |-> <<>>]}

\* The batch is between its first read and its return.
BatchRunning ==
    /\ call.op = "batch_classify_dispositions"
    /\ call.pc \in {"loop", "checkpoint", "checkpoint_open", "final", "final_open"}

\* batch_classify_dispositions, lines 853-876: read the store, keep the
\* rows of the date range, pick the rows to classify, return 0 when there
\* is none.
batch_classify_dispositions ==
    /\ call.op = "none"
    /\ \E api_key \in ApiKeys, completion \in BatchCompletions, range \in DateRanges :
          LET df == InDateRange(csv, range)
          IN
          call' = [op |-> "batch_classify_dispositions",
                   pc |-> IF needs_classification(df) = <<>> THEN "returned" ELSE "loop",
                   df |-> df, todo |-> needs_classification(df), k |-> 1,
                   before |-> csv, range |-> range,
                   processed_count |-> 0, classified |-> <<>>,
                   api_key |-> api_key, completion |-> completion,
                   ret |-> 0, at |-> "none"]
    /\ UNCHANGED <<storeVars, watchVars, procVars, histVars, wait, sync, life>>

\* One pass of the loop, lines 878-897, up to the write of the checkpoint;
\* after the last row the final save is next.
batch_iterate ==
    /\ call.op = "batch_classify_dispositions"
    /\ call.pc = "loop"
    /\ call' =
          IF call.k > Len(call.todo) THEN [call EXCEPT !.pc = "final"]
          ELSE LET index == call.todo[call.k]
                   row == call.df[index]
               IN  IF Col(row, "transcription") \in {"", "No transcription available"}
                   THEN [call EXCEPT !.k = @ + 1]
                   ELSE LET disposition == classify_disposition(call.api_key, call.completion)
                            n == call.processed_count + 1
                        IN  [call EXCEPT
                               !.df[index][primary_disposition] = disposition.primary_disposition,
                               !.df[index][secondary_disposition] = disposition.secondary_disposition,
                               !.processed_count = n,
                               !.classified = Append(@, index),
                               !.k = @ + 1,
                               !.pc = IF n % checkpoint_every = 0 THEN "checkpoint" ELSE "loop"]
    /\ UNCHANGED <<storeVars, watchVars, procVars, histVars, wait, sync, life>>

\* df.to_csv, first half: the file is opened for writing, which empties it.
batch_to_csv_open ==
    /\ call.op = "batch_classify_dispositions"
    /\ call.pc \in {"checkpoint", "final"}
    /\ csv' = <<>>
    /\ call' = [call EXCEPT !.pc = IF call.pc = "final" THEN "final_open" ELSE "checkpoint_open"]
    /\ UNCHANGED <<inbound, size, processed, arrivals, del>>
    /\ UNCHANGED <<watchVars, procVars, histVars, wait, sync, life>>

\* df.to_csv, second half: the frame is written and the file closed; after
\* the final save the call returns processed_count.
batch_to_csv_close ==
    /\ call.op = "batch_classify_dispositions"
    /\ call.pc \in {"checkpoint_open", "final_open"}
    /\ csv' = call.df
    /\ call' = IF call.pc = "final_open"
               THEN [call EXCEPT !.pc = "returned", !.ret = call.processed_count]
               ELSE [call EXCEPT !.pc = "loop"]
    /\ UNCHANGED <<inbound, size, processed, arrivals, del>>
    /\ UNCHANGED <<watchVars, procVars, histVars, wait, sync, life>>

\* The process is ended while the batch runs.
batch_interrupt ==
    /\ BatchRunning
    /\ call' = [call EXCEPT !.pc = "interrupted", !.at = call.pc]
    /\ UNCHANGED <<storeVars, watchVars, procVars, histVars, wait, sync, life>>

\* -------------------------------------------------------- cloud sync
Keys == 1..NumKeys

\* Path(s3_key).name: objects under different prefixes can carry the same
\* filename.
KeyFile(k) == ((k - 1) % NumFiles) + 1

\* What list_recordings can return: recent audio objects of the bucket,
\* newest first, each key once; the empty list also when the listing fails.
Listings ==
    {s \in UNION {[1..n -> Keys] : n \in 0..NumKeys} :
        \A i, j \in DOMAIN s : i # j => s[i] # s[j]}

\* Variant: every listed recording is a candidate.
NewFiles_unfiltered(recordings, store) == recordings

\* Lines 264-267: the recordings whose filename has no row in the store.
NewFiles(recordings, store) ==
    SelectSeq(recordings, LAMBDA k : ~is_file_already_processed(store, KeyFile(k)))

\* Variant: the target path is never found.
LocalExists_never(f) == FALSE

\* local_path.exists()
LocalExists(f) == f \in inbound

\* Variant: the batch ends at the first download that returns None.
AfterDownload_abort(s, local_path, how) ==
    LET n == IF local_path THEN s.downloaded_count + 1 ELSE s.downloaded_count
        last == s.i = Len(s.new_files) \/ ~local_path
    IN  [s EXCEPT !.downloaded_count = n,
                  !.outcomes = Append(@, how),
                  !.i = IF last THEN @ ELSE @ + 1,
                  !.pc = IF last THEN "idle" ELSE "loop",
                  !.ret = IF last THEN n ELSE @]

\* Lines 285-296: count the download when a path came back, go on with the
\* next candidate, and return downloaded_count after the last one.
AfterDownload(s, local_path, how) ==
    LET n == IF local_path THEN s.downloaded_count + 1 ELSE s.downloaded_count
        last == s.i = Len(s.new_files)
    IN  [s EXCEPT !.downloaded_count = n,
                  !.outcomes = Append(@, how),
                  !.i = IF last THEN @ ELSE @ + 1,
                  !.pc = IF last THEN "idle" ELSE "loop",
                  !.ret = IF last THEN n ELSE @]

\* _start_s3_sync is called when _process_existing_files has returned.
WorkerStarted == scanState = "done" /\ scanQueue = {}

\* Variant: while True.
while_running_forever(l) == TRUE

\* watcher.py line 252, while self._running.
while_running(l) == l.running

\* Variant: the worker thread ends with the call that raised.
AfterCycle_dies(l, s) ==
    IF s.pc # "idle" THEN l
    ELSE IF s.raised THEN [l EXCEPT !.worker = "exited"]
    ELSE [l EXCEPT !.worker = "wait", !.tick = 0]

\* _s3_sync_worker, lines 253-265: when sync_new_recordings has returned,
\* with a count or from its except clause, the worker goes to its interval
\* wait.
AfterCycle(l, s) ==
    IF s.pc # "idle" THEN l ELSE [l EXCEPT !.worker = "wait", !.tick = 0]

\* S3AudioManager.sync_new_recordings up to the download loop, called by
\* the sync worker while the running flag is set: list the bucket, keep the
\* recordings without a row, return 0 when none is left.
\* An exception before the download loop (the import or the constructor of
\* AudioProcessor, the listing's fields) ends the call in its except
\* clause, lines 298-301, which returns 0.
sync_new_recordings ==
    /\ WorkerStarted
    /\ life.worker = "check"
    /\ while_running(life)
    /\ sync.pc = "idle"
    /\ sync.cycles < MaxSyncCycles
    /\ \/ \E recordings \in Listings :
            LET new_files == NewFiles(recordings, csv)
            IN  sync' = [NoSync EXCEPT !.cycles = sync.cycles + 1,
                                       !.prev_raised = sync.raised,
                                       !.new_files = new_files,
                                       !.pc = IF new_files = <<>> THEN "idle" ELSE "loop",
                                       !.i = IF new_files = <<>> THEN 0 ELSE 1]
       \/ sync' = [NoSync EXCEPT !.cycles = sync.cycles + 1,
                                 !.prev_raised = sync.raised,
                                 !.raised = TRUE]
    /\ life' = AfterCycle(life, sync')
    /\ UNCHANGED <<storeVars, watchVars, procVars, histVars, wait, call>>

\* S3AudioManager.download_recording for the candidate of the loop, lines
\* 136-148: an existing local file is returned as it is, else the fetch
\* is started.
download_recording ==
    /\ sync.pc = "loop"
    /\ sync' = IF LocalExists(KeyFile(sync.new_files[sync.i]))
               THEN AfterDownload(sync, TRUE, "exists")
               ELSE [sync EXCEPT !.pc = "fetch"]
    /\ life' = AfterCycle(life, sync')
    /\ UNCHANGED <<storeVars, watchVars, procVars, histVars, wait, call>>

\* s3_client.download_file, lines 151-163: the object is written to the
\* target path, replacing what is there, and the path is returned; any
\* exception leaves the folder as it was and gives None.  Whether the
\* observer reports the new file as created depends on the platform.
download_file ==
    /\ sync.pc = "fetch"
    /\ LET f == KeyFile(sync.new_files[sync.i])
       IN  \/ /\ inbound' = inbound \cup {f}
              /\ \E sz \in Sizes : size' = [size EXCEPT ![f] = sz]
              /\ \E notified \in BOOLEAN :
                    events' = IF notified THEN events \cup {f} ELSE events
              /\ sync' = AfterDownload(sync, TRUE,
                            IF f \in inbound THEN "overwrote" ELSE "downloaded")
           \/ /\ sync' = AfterDownload(sync, FALSE, "failed")
              /\ UNCHANGED <<inbound, size, events>>
    /\ life' = AfterCycle(life, sync')
    /\ UNCHANGED <<csv, processed, arrivals, del, claimed, scanState, scanQueue>>
    /\ UNCHANGED <<procVars, histVars, wait, call>>

\* _s3_sync_worker, lines 267-271: the interval wait, one second a step;
\* a cleared flag ends the wait and then the loop, the end of the interval
\* leads back to the loop's test.  The model follows IntervalTicks of the
\* sync_interval = 300 equal seconds.
s3_sync_wait ==
    /\ life.worker = "wait"
    /\ life' = IF life.tick = IntervalTicks
               THEN [life EXCEPT !.worker = "check", !.tick = 0]
               ELSE IF ~life.running
               THEN [life EXCEPT !.worker = "exited", !.tick = 0]
               ELSE [life EXCEPT !.tick = @ + 1]
    /\ UNCHANGED <<storeVars, watchVars, procVars, histVars, wait, sync, call>>

\* _s3_sync_worker, line 252: the loop's test fails, the worker returns.
s3_sync_exit ==
    /\ WorkerStarted
    /\ life.worker = "check"
    /\ sync.pc = "idle"
    /\ ~while_running(life)
    /\ life' = [life EXCEPT !.worker = "exited"]
    /\ UNCHANGED <<storeVars, watchVars, procVars, histVars, wait, sync, call>>

\* AudioWatcher.start, lines 162-165: the main thread leaves its loop when
\* the flag is cleared.
watch_loop ==
    /\ WorkerStarted
    /\ life.main = "loop"
    /\ ~life.running
    /\ life' = [life EXCEPT !.main = "exited"]
    /\ UNCHANGED <<storeVars, watchVars, procVars, histVars, wait, sync, call>>

\* AudioWatcher.stop, called from any thread: returns at once when the flag
\* is clear, else clears it and stops the observer, whose queued events are
\* not delivered any more.
stop ==
    /\ life.stops < MaxStops
    /\ IF ~life.running
       THEN /\ life' = [life EXCEPT !.stops = @ + 1]
            /\ UNCHANGED events
       ELSE /\ life' = [life EXCEPT !.stops = @ + 1, !.running = FALSE]
            /\ events' = {}
    /\ UNCHANGED <<storeVars, claimed, scanState, scanQueue, procVars, histVars, wait, sync, call>>

\* Somebody deletes a file from the watched folder.
RemoveFile(f) ==
    /\ f \in inbound
    /\ inbound' = inbound \ {f}
    /\ size' = [size EXCEPT ![f] = 0]
    /\ UNCHANGED <<csv, processed, arrivals, del, watchVars, procVars, histVars, bgVars>>

Next ==
    \/ \E f \in Files : CreateFile(f)
    \/ \E t \in Threads, f \in Paths : on_created(t, f)
    \/ process_existing_files
    \/ \E t \in Threads, f \in Files : scan_dispatch(t, f)
    \/ \E t \in Threads : process_file_safely(t)
    \/ \E t \in Threads : process_audio_file(t)
    \/ \E t \in Threads : stat_file(t)
    \/ \E t \in Threads : transcribe_with_deepgram(t)
    \/ \E t \in Threads : analyze_with_openai(t)
    \/ \E t \in Threads : move_to_processed(t)
    \/ \E t \in Threads : save_result(t)
    \/ \E t \in Threads : finish(t)
    \/ \E t \in Threads, f \in Files : reprocess_file(t, f)
    \/ \E f \in Files : delete_record_read(f)
    \/ delete_record_write

Spec == Init /\ [][Next]_vars

\* The steps a started thread takes by itself.
ThreadStep(t) ==
    \/ process_file_safely(t)
    \/ process_audio_file(t)
    \/ stat_file(t)
    \/ transcribe_with_deepgram(t)
    \/ analyze_with_openai(t)
    \/ move_to_processed(t)
    \/ save_result(t)
    \/ finish(t)

\* Every started thread keeps being scheduled.
FairSpec == Spec /\ \A t \in Threads : WF_vars(ThreadStep(t))

\* Every started thread keeps being scheduled, and the observer thread keeps
\* delivering the creation events it has queued.
ProgressSpec ==
    /\ FairSpec
    /\ \A f \in Files : WF_vars(\E t \in Threads : on_created(t, f))

\* The watcher while the dashboard is idle, with everything that can be
\* created in the watched folder.
WatchNext ==
    \/ \E p \in Paths : CreatePath(p)
    \/ \E t \in Threads, p \in Paths : on_created(t, p)
    \/ process_existing_files
    \/ \E t \in Threads, f \in Files : scan_dispatch(t, f)
    \/ \E t \in Threads : process_file_safely(t)
    \/ \E t \in Threads : process_audio_file(t)
    \/ \E t \in Threads : stat_file(t)
    \/ \E t \in Threads : transcribe_with_deepgram(t)
    \/ \E t \in Threads : analyze_with_openai(t)
    \/ \E t \in Threads : move_to_processed(t)
    \/ \E t \in Threads : save_result(t)
    \/ \E t \in Threads : finish(t)

WatchSpec == Init /\ [][WatchNext]_vars

\* The handling of one creation event with the stability wait spelled out
\* poll by poll; the observer's thread keeps running.
WaitNext ==
    \/ \E f \in Files : CreateFile(f)
    \/ \E f \in Files : wait_start(f)
    \/ wait_for_file_stable
    \/ \E t \in Threads, f \in Files : on_created(t, f)

WaitInit == InitExceptWait /\ wait = [NoWait EXCEPT !.pc = "idle"]

WaitSpec ==
    /\ WaitInit
    /\ [][WaitNext]_vars
    /\ WF_vars(wait_for_file_stable)
    /\ WF_vars(\E t \in Threads, f \in Files : on_created(t, f))

\* The watcher with its sync worker while the dashboard is idle.
SyncNext ==
    \/ \E f \in Files : CreateFile(f)
    \/ \E t \in Threads, f \in Files : on_created(t, f)
    \/ process_existing_files
    \/ \E t \in Threads, f \in Files : scan_dispatch(t, f)
    \/ \E t \in Threads : process_file_safely(t)
    \/ \E t \in Threads : process_audio_file(t)
    \/ \E t \in Threads : stat_file(t)
    \/ \E t \in Threads : transcribe_with_deepgram(t)
    \/ \E t \in Threads : analyze_with_openai(t)
    \/ \E t \in Threads : move_to_processed(t)
    \/ \E t \in Threads : save_result(t)
    \/ \E t \in Threads : finish(t)
    \/ sync_new_recordings
    \/ download_recording
    \/ download_file

SyncSpec == Init /\ [][SyncNext]_vars

\* The watcher and its sync worker while they run: scan threads, files that
\* are deleted under them, and the worker's cycles with the interval wait
\* between them.
WorkerNext ==
    \/ \E f \in Files : RemoveFile(f)
    \/ process_existing_files
    \/ \E t \in Threads, f \in Files : scan_dispatch(t, f)
    \/ \E t \in Threads : process_file_safely(t)
    \/ \E t \in Threads : process_audio_file(t)
    \/ \E t \in Threads : stat_file(t)
    \/ \E t \in Threads : transcribe_with_deepgram(t)
    \/ \E t \in Threads : analyze_with_openai(t)
    \/ \E t \in Threads : move_to_processed(t)
    \/ \E t \in Threads : save_result(t)
    \/ \E t \in Threads : finish(t)
    \/ sync_new_recordings
    \/ download_recording
    \/ download_file
    \/ s3_sync_wait

WorkerSpec == Init /\ [][WorkerNext]_vars

\* Shutdown: the main loop, the sync worker and stop(), started on an empty
\* folder; the loops do not wait for the processing threads.  The main
\* thread and the worker thread keep being scheduled.
StopNext ==
    \/ process_existing_files
    \/ sync_new_recordings
    \/ download_recording
    \/ download_file
    \/ s3_sync_wait
    \/ s3_sync_exit
    \/ watch_loop
    \/ stop

StopInit == Init /\ inbound = {}

WorkerStep ==
    \/ sync_new_recordings
    \/ download_recording
    \/ download_file
    \/ s3_sync_wait
    \/ s3_sync_exit

StopSpec ==
    /\ StopInit
    /\ [][StopNext]_vars
    /\ WF_vars(process_existing_files)
    /\ WF_vars(WorkerStep)
    /\ WF_vars(watch_loop)

\* The store's functions called one at a time on a store left by earlier
\* runs.
StoreNext ==
    \/ check_processed
    \/ \E f \in Names : delete_record(f)

StoreInit == csv \in Stores /\ InitExceptStore /\ wait = NoWait

StoreSpec == StoreInit /\ [][StoreNext]_vars

\* Functions without state, called one at a time with every input of the
\* model.
PureNext ==
    \/ classify_disposition_call
    \/ extract_metadata_call
    \/ classify_sub_intent_call
    \/ extract_from_text_call
    \/ analyze_json_call

PureSpec == Init /\ [][PureNext]_vars

\* Pipeline threads relocating source files that share a filename.
RelocateNext ==
    \/ same_name_files
    \/ \E t \in Threads : pick_processed_path(t)
    \/ \E t \in Threads : shutil_move(t)

RelocateSpec == Init /\ [][RelocateNext]_vars

\* A filename with a row in the store that no pipeline thread works on.
OtherName == NumFiles + 1

\* The watcher's pipeline threads next to a delete request of the
\* dashboard for the row of another filename.
RewriteNext ==
    \/ process_existing_files
    \/ \E t \in Threads, f \in Files : scan_dispatch(t, f)
    \/ \E t \in Threads : ThreadStep(t)
    \/ delete_record_read(OtherName)
    \/ delete_record_write

RewriteInit ==
    csv = <<StoreRow(OtherName, "completed")>> /\ InitExceptStore /\ wait = NoWait

RewriteSpec == RewriteInit /\ [][RewriteNext]_vars

\* One run of the disposition batch on a store that has the disposition
\* columns, ended by its return or by the end of the process.
BatchNext ==
    \/ batch_classify_dispositions
    \/ batch_iterate
    \/ batch_to_csv_open
    \/ batch_to_csv_close
    \/ batch_interrupt

BatchInit == csv \in BatchStores /\ inbound = {} /\ InitExceptStore /\ wait = NoWait

BatchSpec == BatchInit /\ [][BatchNext]_vars

TypeOK ==
    /\ inbound \subseteq Paths
    /\ size \in [Files -> Sizes]
    /\ \A f \in Files \ inbound : size[f] = 0
    /\ claimed \subseteq Files
    /\ events \subseteq Paths
    /\ scanQueue \subseteq Files
    /\ arrivals \in 0..(MaxArrivals + MaxEvents)
    /\ \A t \in Threads :
        /\ pc[t] \in {"idle", "safely", "escaped", "dedup", "stat", "deepgram", "openai",
                      "move", "save", "done"}
        /\ attempt[t] \in 0..MAX_RETRIES
        /\ ret[t] \in {"none", "skipped", "completed", "failed"}

\* ================================================================ claims
RowsFor(f) == {i \in 1..Len(csv) : csv[i][1] = f}

Occurs(tr, what) == \E i \in 1..Len(tr) : tr[i] = what

Count(tr, what) == Cardinality({i \in 1..Len(tr) : tr[i] = what})

\* what precedes every occurrence of `b` in tr: some element of `as`
Preceded(tr, as, b) ==
    \A j \in 1..Len(tr) : tr[j] = b => \E i \in 1..(j - 1) : tr[i] \in as

Returned(t) == pc[t] = "done"

C2_ExactlyOneRow ==
    \A t \in Threads :
        (Returned(t) /\ ret[t] \in {"completed", "failed"})
            => Count(trace[t], "append") = 1

\* C3: when transcription raised after MAX_RETRIES attempts, the store has a
\* row for the filename with status 'failed' and a non-empty error message,
\* and the source file is still in the inbound folder.
C3_FailureIsolation ==
    \A t \in Threads :
        (Returned(t) /\ result[t].error_message.attempts = MAX_RETRIES)
            => /\ \E i \in RowsFor(file[t]) :
                    /\ Col(csv[i], "status") = "failed"
                    /\ Col(csv[i], "error_message").text # ""
               /\ Occurs(trace[t], "moved") = FALSE

\* C4: an invocation that ends 'completed' has its source file out of the
\* inbound folder; a failed relocation ends the invocation 'failed'.
C4_CompletedMeansMoved ==
    \A t \in Threads :
        (Returned(t) /\ ret[t] = "completed")
            => /\ ~Occurs(trace[t], "move_failed")
               /\ Occurs(trace[t], "moved")

Rank(e) ==
    CASE e = "metadata" -> 1
      [] e = "transcribe" -> 2
      [] e = "transcribed" -> 3
      [] e = "classify" -> 4
      [] e \in {"classified", "defaulted"} -> 5
      [] e \in {"moved", "move_failed"} -> 6
      [] e = "append" -> 7

\* C7: the side effects of one invocation occur in the order metadata,
\* transcription, classification, relocation, append: the classifier is
\* called only after transcription returned, the relocation step runs only
\* after classification finished or was defaulted, and a completed row is
\* appended only after the relocation step.
C7_SideEffectOrder ==
    \A t \in Threads :
        LET tr == trace[t] IN
        /\ \A i, j \in 1..Len(tr) : i < j => Rank(tr[i]) < Rank(tr[j])
        /\ Preceded(tr, {"metadata"}, "transcribe")
        /\ Preceded(tr, {"transcribed"}, "classify")
        /\ Preceded(tr, {"classified", "defaulted"}, "moved")
        /\ Preceded(tr, {"classified", "defaulted"}, "move_failed")
        /\ Preceded(tr, {"moved", "move_failed"}, "append")

\* A full run: all five side effects have happened.
C7_Witness ==
    \E t \in Threads :
        /\ Returned(t)
        /\ trace[t] = <<"metadata", "transcribe", "transcribed", "classify",
                        "classified", "moved", "append">>

\* C8: every row of the store has status 'completed' or 'failed'; no row
\* with status 'processing' is ever present.
C8_TerminalStatusOnly ==
    \A i \in 1..Len(csv) : Col(csv[i], "status") \in {"completed", "failed"}

C8_Witness ==
    \E t \in Threads : Returned(t) /\ Occurs(trace[t], "append") /\ Len(csv) > 0

\* C9: every started invocation returns, with exactly one of the statuses
\* skipped, completed, failed, and neither retry loop runs more than
\* MAX_RETRIES iterations.
C9_Terminates ==
    /\ \A t \in Threads : (pc[t] = "dedup") ~> Returned(t)
    /\ [](\A t \in Threads :
            /\ Returned(t) <=> ret[t] \in {"skipped", "completed", "failed"}
            /\ (Returned(t) /\ ret[t] # "skipped") => ret[t] = result[t].status
            /\ pc[t] \in {"deepgram", "openai"} => attempt[t] < MAX_RETRIES)

C9_Witness ==
    \E t \in Threads :
        /\ Returned(t)
        /\ ret[t] = "failed"
        /\ result[t].error_message.attempts = MAX_RETRIES

\* C10: the transcription loop calls the provider at most MAX_RETRIES times,
\* stops at the first success, has slept RETRY_DELAY * k after the k-th
\* failed attempt for k < MAX_RETRIES and not after the last one, and raises
\* exactly when MAX_RETRIES attempts failed, with the count in the message.
C10_TranscriptionRetry ==
    \A t \in Threads :
        LET h == dg[t]
            slept == IF h.fails < MAX_RETRIES THEN h.fails ELSE MAX_RETRIES - 1
            attempts == h.fails + (IF h.end = "returned" THEN 1 ELSE 0)
        IN
        /\ attempts <= MAX_RETRIES
        /\ h.calls <= attempts
        /\ h.sleeps = [k \in 1..slept |-> RETRY_DELAY * k]
        /\ (h.end = "raised") <=> (h.fails = MAX_RETRIES)
        /\ h.end = "raised" =>
              /\ result[t].status = "failed"
              /\ result[t].error_message.attempts = MAX_RETRIES
        /\ h.end \in {"returned", "raised"} => pc[t] # "deepgram"
        /\ h.end \in {"running", "returned", "raised"}

C10_Witness ==
    \E t \in Threads :
        /\ dg[t].end = "raised"
        /\ dg[t].sleeps = <<RETRY_DELAY, RETRY_DELAY * 2>>
        /\ dg[t].calls = MAX_RETRIES

\* C11: the classifier never raises to its caller: when its loop has ended
\* the pipeline goes on to the relocation step with no failure recorded; it
\* returns None exactly when MAX_RETRIES attempts failed, having slept
\* RETRY_DELAY * k after the k-th failed attempt except the last; any other
\* return value is a dict with summary, intent and sub_intent.
C11_ClassifierNeverRaises ==
    \A t \in Threads :
        LET h == ai[t]
            slept == IF h.fails < MAX_RETRIES THEN h.fails ELSE MAX_RETRIES - 1
            attempts == h.fails + (IF h.end = "returned" THEN 1 ELSE 0)
        IN
        /\ h.end \in {"running", "returned", "returned_none"}
        /\ attempts <= MAX_RETRIES
        /\ h.calls = attempts
        /\ h.sleeps = [k \in 1..slept |-> RETRY_DELAY * k]
        /\ (h.end = "returned_none") <=> (h.fails = MAX_RETRIES)
        /\ (h.end = "returned_none") <=> (h.end # "running" /\ h.value = NoAnalysis)
        /\ h.end = "returned" =>
              /\ {"summary", "intent", "sub_intent"} \subseteq DOMAIN h.value
              /\ result[t].summary = h.value.summary
              /\ result[t].intent = h.value.intent
              /\ result[t].sub_intent = h.value.sub_intent
        /\ h.end = "returned_none" =>
              /\ result[t].summary = "AI analysis failed"
              /\ result[t].intent = "OTHER"
        /\ h.end # "running" =>
              /\ pc[t] = "move"
              /\ result[t].status = "processing"
              /\ result[t].error_message = NoMessage

\* All attempts failed: two sleeps, None returned, the pipeline goes on.
C11_Witness ==
    \E t \in Threads :
        /\ ai[t].end = "returned_none"
        /\ ai[t].calls = MAX_RETRIES
        /\ ai[t].sleeps = <<RETRY_DELAY, RETRY_DELAY * 2>>
        /\ pc[t] = "move"

\* A creation event for p is taken off the observer's queue in this step.
Handled(p) == p \in events /\ p \notin events'

\* The threads started in this step.
Started == {t \in Threads : pc[t] = "idle" /\ pc'[t] # "idle"}

\* _process_file_safely of thread t returns in this step.
Finishes(t) == pc[t] \in {"safely", "done"} /\ pc'[t] = "idle" /\ origin[t] # "reprocess"

\* C12: the handling of a creation event starts a thread only in the step
\* that inserts the path into the claimed set, and starts exactly one; an
\* event for a path that is in the set starts none and leaves the set as it
\* is: every dispatch by an event is the start of a claim.
C12_InFlightDedup ==
    [][\A p \in Paths :
          Handled(p) =>
              IF p \in claimed
              THEN Started = {} /\ claimed' = claimed
              ELSE /\ (is_directory(p) \/ ~is_supported_audio_file(p)) => Started = {}
                   /\ Started # {} =>
                         /\ Cardinality(Started) = 1
                         /\ claimed' = claimed \cup {p}
                         /\ \A t \in Started : file'[t] = p /\ origin'[t] = "event"
                   /\ (~is_directory(p) /\ is_supported_audio_file(p)) => Started # {}]_vars

\* A second creation event for a path is pending while the path is claimed
\* and the thread of the first one is still running.
C12_Witness ==
    \E f \in Files, t \in Threads :
        /\ f \in events
        /\ f \in claimed
        /\ origin[t] = "event"
        /\ file[t] = f
        /\ pc[t] \notin {"idle", "done"}
        /\ \A u \in Threads \ {t} : Idle(u)

C16_ScanBeforeWatching ==
    [][/\ \A p \in Paths : Handled(p) => scanState = "done"
       /\ (scanState = "notyet" /\ scanState' = "done")
             => scanQueue' = {f \in inbound \cap Files : RowsFor(f) = {}}
       /\ (scanQueue' # scanQueue /\ scanState = "done")
             => /\ Cardinality(Started) = 1
                /\ \E f \in scanQueue :
                      /\ scanQueue' = scanQueue \ {f}
                      /\ \A t \in Started : file'[t] = f]_vars

\* C17: an event for a directory or an unsupported name changes neither the
\* claimed set nor any thread; a watcher thread enters process_audio_file
\* only from _process_file_safely and only for a file that is present, not
\* empty and not larger than MAX_FILE_SIZE_MB megabytes; only audio files
\* are ever claimed or handed to a thread.
C17_OnlyEligibleFiles ==
    /\ [][/\ \A p \in Paths :
               (Handled(p) /\ (p = SubDir \/ p = TextFile))
                   => claimed' = claimed /\ pc' = pc
          /\ \A t \in Threads :
               (pc'[t] = "dedup" /\ pc[t] # "dedup" /\ origin'[t] # "reprocess")
                   => /\ pc[t] = "safely"
                      /\ file[t] \in inbound
                      /\ size[file[t]] > 0
                      /\ size[file[t]] <= MAX_FILE_SIZE_MB * 1024 * 1024]_vars
    /\ [](/\ claimed \subseteq Files
          /\ \A t \in Threads : file[t] \in Files \cup {0})

\* An oversized audio file and a text file arrived, every event was
\* handled, and nothing was claimed, processed or recorded.
C17_Witness ==
    \E f \in Files :
        /\ f \in inbound /\ size[f] > MAX_FILE_SIZE_MB * 1024 * 1024
        /\ TextFile \in inbound
        /\ events = {}
        /\ arrivals = 2
        /\ claimed = {}
        /\ csv = <<>>
        /\ \A t \in Threads : Idle(t)

\* C14: the stability wait makes at most max_wait polls whatever it
\* observes, every iteration that does not return counts one second, the
\* wait returns, and the handler then starts the processing thread whether
\* or not the file became stable.
C14_WaitTerminates ==
    /\ [](wait.polls <= max_wait /\ wait.wait_time <= max_wait)
    /\ [][(wait.pc = "polling" /\ wait' # wait)
            => \/ wait'.pc = "returned"
               \/ wait'.pc = "polling" /\ wait'.wait_time = wait.wait_time + 1]_vars
    /\ (wait.pc = "polling") ~> (wait.pc = "returned")
    /\ \A f \in Files :
          (wait.pc = "polling" /\ wait.path = f)
              ~> (\E t \in Threads : file[t] = f /\ pc[t] = "safely")

\* The wait timed out on a file that never became stable.
C14_Witness ==
    /\ wait.pc = "returned"
    /\ wait.polls = max_wait
    /\ wait.wait_time = max_wait
    /\ wait.stable_count = 0

\* C15: when the wait returns before max_wait polls have elapsed, the last
\* stable_time polls all succeeded and saw the same non-zero size.
C15_StableMeansUnchanged ==
    (wait.pc = "returned" /\ wait.wait_time < max_wait)
        => /\ Len(wait.seen) = stable_time
           /\ \A i \in 1..Len(wait.seen) :
                 /\ wait.seen[i].ok
                 /\ wait.seen[i].st_size > 0
                 /\ wait.seen[i].st_size = wait.seen[1].st_size

\* ---- cloud sync
\* The filename of the candidate that the sync loop is at.
Candidate == KeyFile(sync.new_files[sync.i])

\* The step is a fetch of the sync worker that wrote its file.
Fetched ==
    /\ sync.pc = "fetch"
    /\ Len(sync'.outcomes) = Len(sync.outcomes) + 1
    /\ sync'.outcomes[Len(sync'.outcomes)] \in {"downloaded", "overwrote"}

C19_ExistingFileWins ==
    [][(sync.pc = "loop" /\ sync' # sync /\ Candidate \in inbound) =>
            /\ sync'.pc # "fetch"
            /\ sync'.outcomes = Append(sync.outcomes, "exists")
            /\ inbound' = inbound
            /\ size' = size
            /\ events' = events]_vars

\* A call found its file in the folder, which is still there.
C19_Witness ==
    \E j \in 1..Len(sync.outcomes) :
        /\ sync.outcomes[j] = "exists"
        /\ KeyFile(sync.new_files[j]) \in inbound

\* C20: the loop goes on after a failed download: a returned cycle has one
\* outcome per candidate, a running one has one per candidate before the
\* current, and downloaded_count is the number of calls that returned a
\* path, which is at most the number of calls made.
C20_FailureDoesNotAbort ==
    /\ Len(sync.outcomes) <= Len(sync.new_files)
    /\ sync.pc = "idle" => Len(sync.outcomes) = Len(sync.new_files)
    /\ sync.pc \in {"loop", "fetch"} => Len(sync.outcomes) = sync.i - 1
    /\ sync.downloaded_count =
          Cardinality({j \in 1..Len(sync.outcomes) : sync.outcomes[j] # "failed"})
    /\ sync.downloaded_count <= Len(sync.outcomes)
    /\ sync.pc = "idle" => sync.ret = sync.downloaded_count

\* A cycle returned whose first download failed and whose second was made.
C20_Witness ==
    /\ sync.pc = "idle"
    /\ Len(sync.outcomes) = 2
    /\ sync.outcomes[1] = "failed"
    /\ sync.ret = sync.downloaded_count

\* ---- loops
\* C21: a sync cycle that raised ends in sync_new_recordings' own except
\* clause with the value 0 and leaves the worker in its loop, waiting for
\* the next cycle; while the flag is set the worker never ends.  An
\* exception raised in _process_file_safely is caught there: no processing
\* thread ends with an exception.
C21_LoopsSurvive ==
    /\ \A t \in Threads : pc[t] # "escaped"
    /\ life.running => life.worker # "exited"
    /\ (sync.pc = "idle" /\ sync.raised) =>
            /\ sync.ret = 0
            /\ life.worker \in {"wait", "check"}

\* The cycle after one that raised is running, and a thread has returned
\* from _process_file_safely after its stat() raised.
C21_Witness ==
    /\ sync.cycles = 2
    /\ sync.prev_raised
    /\ life.caught
    /\ \A t \in Threads : pc[t] = "idle"

\* The step is one of the sync worker in its interval wait.
WaitTick ==
    /\ life.worker = "wait"
    /\ life'.worker # life.worker \/ life'.tick # life.tick

C23_ExistsIffRow ==
    call.op = "is_file_already_processed" =>
        (call.out <=> \E i \in 1..Len(call.csv_file.rows) :
                          Col(call.csv_file.rows[i], "filename") = call.filename)

\* The rows of df that delete_record(f) has to keep, by their positions.
KeptIndex(df, f, j) ==
    CHOOSE i \in 1..Len(df) :
        /\ Col(df[i], "filename") # f
        /\ Cardinality({k \in 1..i : Col(df[k], "filename") # f}) = j

C25_AppendOneRow ==
    [][\A t \in Threads :
        (pc[t] = "save" /\ pc'[t] # "save") =>
            /\ Len(csv') = Len(csv) + 1
            /\ SubSeq(csv', 1, Len(csv)) = csv
            /\ \A i \in 1..Len(get_csv_headers) :
                  csv'[Len(csv')][i] = result[t][get_csv_headers[i]]]_vars

\* ---- disposition
\* C26: classify_disposition always returns a pair: (UNKNOWN, NO_API_KEY)
\* without a provider call when the key is unset or empty; (ERROR,
\* API_ERROR) when the call raises; (OTHER, CLASSIFICATION_ERROR) when the
\* response text has no '|'.
C26_DispositionTotal ==
    call.op = "classify_disposition" =>
        LET k == call.api_key
            c == call.completion
            nokey == ~k.set \/ k.value = ""
        IN  /\ DOMAIN call.out = {"primary_disposition", "secondary_disposition"}
            /\ nokey => /\ call.out = Disposition(<<"UNKNOWN">>, <<"NO_API_KEY">>)
                        /\ ~call.called
            /\ (~nokey /\ c.kind = "raises") =>
                    call.out = Disposition(<<"ERROR">>, <<"API_ERROR">>)
            /\ (~nokey /\ c.kind = "content"
                  /\ \A i \in 1..Len(c.content) : c.content[i] # "|") =>
                    call.out = Disposition(<<"OTHER">>, <<"CLASSIFICATION_ERROR">>)

\* Each of the three failures has been returned: here the response
\* without a separator, with a key that is set.
C26_Witness ==
    /\ call.op = "classify_disposition"
    /\ call.called
    /\ call.completion.kind = "content"
    /\ call.completion.content = <<"A", " ", "A">>
    /\ call.out = Disposition(<<"OTHER">>, <<"CLASSIFICATION_ERROR">>)

\* C27 as stated: when the batch is ended after N > 10 classifications, the
\* store holds the results of the first 10 * floor(N / 10) of them.
C27_CheckpointPersisted ==
    (call.op = "batch_classify_dispositions" /\ call.pc = "interrupted"
        /\ call.processed_count > 10) =>
        \A j \in 1..(10 * (call.processed_count \div 10)) :
            LET index == call.classified[j]
            IN  /\ index <= Len(csv)
                /\ csv[index][primary_disposition] = call.df[index][primary_disposition]
                /\ csv[index][primary_disposition] # <<>>

\* C28 as stated: whatever the interleaving of relocations of files that
\* share a filename, no file of the processed folder is overwritten and
\* each relocated file is there under a name of its own.
C28_NoOverwrite ==
    call.op = "_move_to_processed" =>
        /\ call.overwritten = {}
        /\ \A d \in call.relocated :
              Cardinality({k \in Suffixes : call.at[k] = d}) = 1

\* The extraction ran on a filename that does not follow the pattern: a
\* malformed name, or digits that are no date or no time of day.
MetadataMiss ==
    /\ call.op = "_extract_filename_metadata"
    /\ \/ call.parts = NoParts
       \/ call.parts.date \in InvalidDates
       \/ call.parts.time \in InvalidTimes

Dashed(d) == <<d[1], d[2], d[3], d[4], "-", d[5], d[6], "-", d[7], d[8]>>
Coloned(t) == <<t[1], t[2], ":", t[3], t[4], ":", t[5], t[6]>>

\* C30: for a filename that follows the pattern the extraction returns the
\* date, time, phone, status and agent of the filename's segments and
\* estimated_duration_seconds = dur_min * 60 + dur_sec.
C30_SegmentsExtracted ==
    (/\ call.op = "_extract_filename_metadata"
     /\ call.parts # NoParts
     /\ call.parts.date \in ValidDates
     /\ call.parts.time \in ValidTimes) =>
        /\ call.out # Raised
        /\ call.out.call_date = Dashed(call.parts.date)
        /\ call.out.call_time = Coloned(call.parts.time)
        /\ call.out.phone_number = call.parts.phone
        /\ call.out.call_status = call.parts.status
        /\ call.out.agent_name = call.parts.agent
        /\ call.out.estimated_duration_seconds =
               int(call.parts.dur_min) * 60 + int(call.parts.dur_sec)

C30_Witness ==
    /\ call.op = "_extract_filename_metadata"
    /\ call.filename = <<"2", "0", "2", "4", "0", "2", "2", "9", "_", "2", "3", "5", "9", "5", "9", "1", "2", "0", "m", "7", "5", "s", "_", "+", "1", "-", "5", "_", "a", "n", "s", "w", "e", "r", "e", "d", "_", "j", ".", "s", ".", "w", "a", "v">>
    /\ call.out.call_date = <<"2", "0", "2", "4", "-", "0", "2", "-", "2", "9">>
    /\ call.out.agent_name = <<"j", ".", "s">>
    /\ call.out.estimated_duration_seconds = 7275

\* The score the statement gives a candidate: the lengths of its keyword
\* phrases that occur in the lower-cased summary, added up.
RECURSIVE SumLen(_)
SumLen(set) ==
    IF set = {} THEN 0
    ELSE LET k == CHOOSE k \in set : TRUE IN Len(k) + SumLen(set \ {k})

StatedScore(intent, i, summary) ==
    LET keywords == patterns(intent)[i].keywords
    IN  SumLen({keywords[j] : j \in {j \in 1..Len(keywords) :
                                        Contains(lower(summary), keywords[j])}})

\* C31: the scorer returns the candidate of the intent with the highest
\* sum of lengths of keyword phrases found in the lower-cased summary, the
\* earlier candidate on a tie, and the default of the intent when no
\* keyword is found.
C31_KeywordScoring ==
    (call.op = "_classify_sub_intent_keywords" /\ call.intent \in PatternIntents) =>
        LET n == Len(patterns(call.intent))
            score(i) == StatedScore(call.intent, i, call.summary)
        IN  IF \A i \in 1..n : score(i) = 0
            THEN call.out = DefaultSubIntent(call.intent)
            ELSE \E i \in 1..n :
                    /\ call.out = patterns(call.intent)[i].sub_intent
                    /\ \A j \in 1..n : score(j) <= score(i)
                    /\ \A j \in 1..(i - 1) : score(j) < score(i)

\* A tie of 7 between ROOF_REPAIR ('fix', 'leak') and ROOF_REPLACEMENT
\* ('install') goes to the earlier candidate.
C31_Witness ==
    /\ call.op = "_classify_sub_intent_keywords"
    /\ call.intent = "ROOFING"
    /\ call.summary = <<"I", "n", "s", "t", "a", "l", "l", ";", " ", "f", "i", "x", " ", "l", "e", "a", "k">>
    /\ StatedScore("ROOFING", 2, call.summary) = 7
    /\ StatedScore("ROOFING", 3, call.summary) = 7
    /\ call.out = "ROOF_REPAIR"

\* C32: a classification result carries one of the 13 valid intents; on the
\* JSON path a valid intent is kept and any other is replaced by OTHER, on
\* the text-scan path the intent is the valid one named on a line, else
\* OTHER.
C32_IntentInFixedSet ==
    /\ call.op = "_analyze_with_openai" =>
          /\ Cardinality(ValidIntents) = 13
          /\ call.out.intent \in ValidIntents
          /\ call.out.intent =
                IF call.body.intent \in ValidIntents THEN call.body.intent ELSE "OTHER"
    /\ call.op = "_extract_from_text_response" =>
          /\ call.out.intent \in ValidIntents
          /\ ~call.out.named => call.out.intent = "OTHER"

C32_Witness ==
    /\ call.op = "_analyze_with_openai"
    /\ call.body.intent = "BANANA"
    /\ call.out.intent = "OTHER"

\* C33 as stated: for a response that is not JSON the text scan returns a
\* complete result: a valid intent, a summary that is not empty, and a
\* sub_intent that comes from keyword scoring unless a specific value was
\* scanned (one that is neither missing nor generic).
C33_FallbackComplete ==
    call.op = "_extract_from_text_response" =>
        /\ call.attempts = 1
        /\ call.out.intent \in ValidIntents
        /\ call.out.summary # <<>>
        /\ \/ call.out.scored
           \/ /\ call.out.scanned
              /\ call.out.sub_intent \notin {<<>>, GENERAL_INQUIRY, GENERAL}

\* C34 as stated: the count sync_new_recordings returns is the number of
\* candidates of the cycle for which the fetch wrote a local file.
C34_CountIsFetched ==
    (sync.cycles > 0 /\ sync.pc = "idle" /\ ~sync.raised) =>
        sync.ret = Cardinality({j \in 1..Len(sync.outcomes) :
                                   sync.outcomes[j] \in {"downloaded", "overwrote"}})

\* C35 as stated: reprocess_file on a file of the processed folder runs the
\* pipeline stages on it again, and its result is that run's: completed or
\* failed, never a skip.
C35_ReprocessRuns ==
    \A t \in Threads :
        (origin[t] = "reprocess" /\ Returned(t)) =>
            /\ trace[t] # <<>>
            /\ ret[t] \in {"completed", "failed"}

\* C36 as stated: no two pipeline threads started by the watcher (startup
\* scan or creation event) work on the same path at the same time.
C36_OneThreadPerPath ==
    \A t, u \in Threads :
        (/\ t # u
         /\ InFlight(t) /\ InFlight(u)
         /\ origin[t] \in {"scan", "event"} /\ origin[u] \in {"scan", "event"})
            => file[t] # file[u]

\* The two frames have the same rows in the same order, dispositions aside.
SameButDispositions(a, b) ==
    /\ Len(a) = Len(b)
    /\ \A i \in 1..Len(a) :
          \A c \in (1..Len(a[i])) \ {primary_disposition, secondary_disposition} :
              a[i][c] = b[i][c]

\* C37 as stated: when batch_classify_dispositions has returned, with or
\* without a date range, the store holds the rows it held before, with
\* every field but the dispositions unchanged.
C37_OnlyDispositionsChange ==
    (call.op = "batch_classify_dispositions" /\ call.pc = "returned") =>
        SameButDispositions(csv, call.before)

\* C38 as stated: the row a pipeline invocation appended is in the store
\* once a delete_record for another filename that ran at the same time has
\* finished.
C38_NoLostUpdate ==
    \A t \in Threads :
        (Count(trace[t], "append") = 1 /\ del.pc = "idle")
            => is_file_already_processed(csv, file[t])

\* C39: a creation event for a file written at a path whose previous file
\* was processed and moved away, and on which no thread is working, starts a
\* processing thread on that path.
C39_RecreatedFileDispatched ==
    [][\A f \in Files :
          (/\ Handled(f)
           /\ f \in inbound
           /\ <<f, 0>> \in processed
           /\ \A t \in Threads : Idle(t) \/ file[t] # f)
              => \E t \in Started : file'[t] = f]_vars

\* C40: every supported audio file of non-zero size within the size limit
\* whose creation event is queued eventually has a row with its filename in
\* the store, when threads and event delivery are scheduled fairly.
C40_EventuallyRecorded ==
    \A f \in Files :
        (/\ f \in events
         /\ f \in inbound
         /\ is_supported_audio_file(f)
         /\ size[f] > 0
         /\ size[f] <= get_file_size_limit_bytes)
            ~> (RowsFor(f) # {})

====
